---------------------------- MODULE Spec2Model ----------------------------
(***************************************************************************)
(* Model of the training driver (Pamain.py), the checkpoint helpers        *)
(* (src/utils.py) and the classifier heads of EndoForm                     *)
(* (src/models/EndoForm.py).                                               *)
(*                                                                         *)
(* Spec      the driver from "training setting" to sys.exit, with process  *)
(*           restarts over a persistent model_store directory.             *)
(* SpecTok   the start of the driver: the tokenizer, its extension with    *)
(*           the domain words, the dataset and the model construction.     *)
(* SpecAttn  AttentionClassifier.forward on integer tensors, with the      *)
(*           class counts scaled down.                                     *)
(* SpecShape EndoForm.forward on tensor shapes, with the shipped sizes.    *)
(***************************************************************************)
EXTENDS Integers, Sequences, FiniteSets, TLC

(***************************************************************************)
(* Bounds of the model.                                                    *)
(***************************************************************************)
\* largest value of config.trainer.num_epochs
MaxEpochs == 2

\* validation IVT scores are drawn from 0..MaxScore
MaxScore == 2

\* largest len(train_loader)
MaxBatches == 2

\* number of times the script is started on the same model_store
MaxRuns == 2

(***************************************************************************)
(* Values.                                                                 *)
(***************************************************************************)
\* content of a path that is absent or cannot be deserialized
NoFile == << >>

\* content of a path that holds the serialized value v
File(v) == <<v>>

\* the dict {} of Pamain.py:135 and utils.py:51
EmptyMetrics == << >>

Max(a, b) == IF a >= b THEN a ELSE b

Min(a, b) == IF a <= b THEN a ELSE b

VARIABLES
    pc,                \* position of the driver process
    config,            \* config.trainer.* read from config.yml
    runs,              \* how many times the script has been started
    ckpt,              \* model_store/<name>/checkpoint: meta, model, optimizer, scheduler
    best,              \* model_store/<name>/best: meta, model
    model,             \* weights held by the model object
    optimizer,         \* state held by the optimizer object
    scheduler,         \* state held by the scheduler object
    train_step,
    val_step,
    start_num_epochs,
    best_score,
    best_metrics,
    epoch,             \* loop variable; -1 while unbound
    score,             \* score returned by the validation pass of this epoch
    metrics,           \* metrics returned by the validation pass of this epoch
    trace,             \* calls the driver made in the current epoch, in order
    resumed,           \* outcome of resume_train_state in this run
    pre,               \* model, optimizer, scheduler state just before resume_train_state
    run_max,           \* maximum of the starting best score and the scores of this run
    prev_best,         \* best score held when the current epoch started
    written,           \* driver values at the last checkpoint metadata write of the loop
    opt_steps,         \* optimizer steps performed in the epochs since epoch 0
    epochs_run         \* the epoch indices train_one_epoch was called with in this run

drv_vars == <<pc, config, runs, ckpt, best, model, optimizer, scheduler, train_step,
              val_step, start_num_epochs, best_score, best_metrics, epoch, score,
              metrics, trace, resumed, pre, run_max, prev_best, written, opt_steps,
              epochs_run>>

VARIABLES
    tpc,               \* position of the driver before the training setting
    vocab,             \* tokenizer.vocab, added tokens included
    vocab0,            \* tokenizer.vocab as from_pretrained returned it
    all_list,          \* instrument_list + target_list + verb_list
    add,               \* the list handed to tokenizer.add_tokens
    num_added_toks,    \* what tokenizer.add_tokens returned
    dataset_vocab,     \* the vocabulary give_dataset was given
    model_vocab        \* the vocabulary PA(tokenizer) was given

tok_vars == <<tpc, vocab, vocab0, all_list, add, num_added_toks, dataset_vocab,
              model_vocab>>

VARIABLES
    apc,               \* position inside AttentionClassifier.forward
    params,            \* the parameters of query_proj, key_proj, value_proj and mlp
    inputs,            \* the tuple (instrument, target, verb) of logits
    query,             \* forward's local query
    key,               \* forward's local key
    value,             \* forward's local value
    scores,
    attention,
    out                \* forward's local out; the triplet logits at the end

attn_vars == <<apc, params, inputs, query, key, value, scores, attention, out>>

VARIABLES
    spc,               \* position inside EndoForm.forward
    x_shape,           \* shape of the input batch x
    pvt,               \* shapes of the backbone's feature maps c1, c2, c3, c4
    feat,              \* shapes of forward's locals _c4, _c3, _c2, L_feature, H_feature
    head_out,          \* shapes of instrument_output, target_output, verb_output
    returned,          \* shapes of the returned tuple, in order
    err                \* the error forward raised, "none" if none

shp_vars == <<spc, x_shape, pvt, feat, head_out, returned, err>>

VARIABLES
    lpc,               \* position inside load_pretrain_model
    lp_path,           \* pretrain_path: [http, file], the file behind the path
    lp_model,          \* the model object given: [id, weights]
    lp_state_dict,     \* the local state_dict
    lp_e,              \* the exception bound by "except Exception as e"
    lp_printed,        \* what accelerator.print was given, in order
    lp_ret             \* the object returned to the caller

load_vars == <<lpc, lp_path, lp_model, lp_state_dict, lp_e, lp_printed, lp_ret>>

VARIABLES
    epc,               \* position inside train_one_epoch
    te_args,           \* len(train_loader), config.trainer.val_training, num_epochs
    te_epoch,          \* the argument epoch
    te_step0,          \* the argument step as given
    te_step,           \* the local step
    te_batch,          \* batches the for loop has taken from train_loader
    te_grad,           \* backward passes accumulated in the gradients
    te_weights,        \* optimizer steps applied to the model since construction
    te_sched,          \* the arguments of scheduler.step in this call, in order
    te_events          \* what this call did, in order

train_vars == <<epc, te_args, te_epoch, te_step0, te_step, te_batch, te_grad,
                te_weights, te_sched, te_events>>

VARIABLES
    rpc,               \* position inside resume_train_state
    rs_dir,            \* the checkpoint directory: meta, model, optimizer and scheduler files
    rs_model,          \* weights of the model given
    rs_optimizers,     \* the argument optimizers: [kind, items]
    rs_schedulers,     \* the argument schedulers: [kind, items]
    rs_locals,         \* best_score, best_metrics, starting_epoch, train_step, val_step
    rs_e,              \* the exception bound by "except Exception as e"
    rs_ret             \* the tuple returned to the caller

res_vars == <<rpc, rs_dir, rs_model, rs_optimizers, rs_schedulers, rs_locals, rs_e,
              rs_ret>>

VARIABLES
    mpc,               \* position of each process of the launch inside __main__
    mp_epoch,          \* each process's loop variable epoch
    mp_best_score,     \* each process's best_score
    mp_score,          \* each process's score of the epoch under way
    mp_open,           \* <<process, path>>: a torch.save of the path is under way
    mp_writes,         \* <<path, epoch, process>>: the process wrote the path in the epoch
    mp_logdirs         \* the processes that created a log directory and log file

mp_vars == <<mpc, mp_epoch, mp_best_score, mp_score, mp_open, mp_writes, mp_logdirs>>

VARIABLES
    gpc,               \* position inside get_params_groups
    gp_named,          \* model.named_parameters(): the (name, param) pairs still to visit
    gp_model,          \* model.named_parameters() as given
    regularized,       \* the list regularized
    not_regularized,   \* the list not_regularized
    gp_ret             \* the list returned

gp_vars == <<gpc, gp_named, gp_model, regularized, not_regularized, gp_ret>>

VARIABLES
    wpc,               \* position inside get_weight_balancing
    wb_config,         \* the argument config: trainer.dataset, dataset.T45, dataset.T50
    wb_case,           \* config after its rebinding to the chosen dataset, and case
    tool_weight,       \* the local tool_weight
    verb_weight,       \* the local verb_weight
    target_weight,     \* the local target_weight
    wb_ret             \* the tuple returned

wb_vars == <<wpc, wb_config, wb_case, tool_weight, verb_weight, target_weight, wb_ret>>

VARIABLES
    bpc,               \* position inside EndoForm.__init__
    b_args,            \* the arguments: dims, num_heads, t_channels, v_channels
    b_stage,           \* the stage of the backbone whose blocks are being built
    b_blocks,          \* the number of blocks of that stage built so far
    b_err              \* the assertion that failed, or "none"

b_vars == <<bpc, b_args, b_stage, b_blocks, b_err>>

VARIABLES
    logpc,             \* life of the Logger: "new", "live", "raised"
    lg_logdir,         \* the argument logdir, "None" for None
    lg_dirs,           \* the directories of the file system
    lg_file,           \* logdir/log.txt: NoFile, or File(the messages written to it)
    sys_stdout,        \* what sys.stdout refers to
    sys_stderr,        \* what sys.stderr refers to
    lg_self,           \* the fields of the Logger: console, log_file
    console_out,       \* the messages written to the original sys.stdout
    console_closed,    \* the original sys.stdout was closed
    lg_written,        \* the messages whose write through the Logger returned
    lg_e               \* the exception the last call raised, or "none"

lg_vars == <<logpc, lg_logdir, lg_dirs, lg_file, sys_stdout, sys_stderr, lg_self,
             console_out, console_closed, lg_written, lg_e>>

vars == <<drv_vars, tok_vars, attn_vars, shp_vars, load_vars, train_vars, res_vars, mp_vars, gp_vars, wb_vars, b_vars, lg_vars>>

\* the variables the training phase of the driver leaves alone
drv_others == <<tok_vars, attn_vars, shp_vars, load_vars, train_vars, res_vars, mp_vars, gp_vars, wb_vars, b_vars, lg_vars>>

\* the variables the start of the driver leaves alone
tok_others == <<drv_vars, attn_vars, shp_vars, load_vars, train_vars, res_vars, mp_vars, gp_vars, wb_vars, b_vars, lg_vars>>

\* the variables AttentionClassifier.forward leaves alone
attn_others == <<drv_vars, tok_vars, shp_vars, load_vars, train_vars, res_vars, mp_vars, gp_vars, wb_vars, b_vars, lg_vars>>

\* the variables EndoForm.forward leaves alone
shp_others == <<drv_vars, tok_vars, attn_vars, load_vars, train_vars, res_vars, mp_vars, gp_vars, wb_vars, b_vars, lg_vars>>

\* the variables load_pretrain_model leaves alone
load_others == <<drv_vars, tok_vars, attn_vars, shp_vars, train_vars, res_vars, mp_vars, gp_vars, wb_vars, b_vars, lg_vars>>

\* the variables train_one_epoch leaves alone
train_others == <<drv_vars, tok_vars, attn_vars, shp_vars, load_vars, res_vars, mp_vars, gp_vars, wb_vars, b_vars, lg_vars>>

\* the variables resume_train_state leaves alone
res_others == <<drv_vars, tok_vars, attn_vars, shp_vars, load_vars, train_vars, mp_vars, gp_vars, wb_vars, b_vars, lg_vars>>

\* the variables the processes of a multi-process launch leave alone
mp_others == <<drv_vars, tok_vars, attn_vars, shp_vars, load_vars, train_vars, res_vars, gp_vars, wb_vars, b_vars, lg_vars>>

\* the variables get_params_groups leaves alone
gp_others == <<drv_vars, tok_vars, attn_vars, shp_vars, load_vars, train_vars, res_vars, mp_vars, wb_vars, b_vars, lg_vars>>

\* the variables get_weight_balancing leaves alone
wb_others == <<drv_vars, tok_vars, attn_vars, shp_vars, load_vars, train_vars, res_vars, mp_vars,
              gp_vars, b_vars, lg_vars>>

\* the variables EndoForm.__init__ leaves alone
b_others == <<drv_vars, tok_vars, attn_vars, shp_vars, load_vars, train_vars, res_vars, mp_vars,
             gp_vars, wb_vars, lg_vars>>

\* the variables Logger leaves alone
lg_others == <<drv_vars, tok_vars, attn_vars, shp_vars, load_vars, train_vars, res_vars, mp_vars,
              gp_vars, wb_vars, b_vars>>

(***************************************************************************)
(* src/utils.py: checkpoint helpers.                                       *)
(***************************************************************************)
\* torch.load of a path: the exception it raises, "none" when it returns
torch_load_exc(file) == IF file = NoFile THEN "FileNotFoundError" ELSE "none"

\* load_pretrain_model: its own try/except swallows every failure and returns
\* the model it was given; on success load_state_dict has replaced the weights
load_pretrain_model(file, m) ==
    IF torch_load_exc(file) # "none" THEN m ELSE file[1]

\* the mutant of MetaRecord: the two step counters stored under each other's key
MetaRecord_steps_swapped(e, bs, bm, ts, vs) ==
    [complete |-> TRUE, epoch |-> e, best_score |-> bs, best_metrics |-> bm,
     train_step |-> vs, val_step |-> ts]

\* the mutant of MetaRecord: the next epoch stored instead of the finished one
MetaRecord_next_epoch(e, bs, bm, ts, vs) ==
    [complete |-> TRUE, epoch |-> e + 1, best_score |-> bs, best_metrics |-> bm,
     train_step |-> ts, val_step |-> vs]

\* the record written by torch.save({...}, '.../epoch.pth.tar')
MetaRecord(e, bs, bm, ts, vs) ==
    [complete |-> TRUE, epoch |-> e, best_score |-> bs, best_metrics |-> bm,
     train_step |-> ts, val_step |-> vs]

\* the value resume_train_state returns from its except branch
resume_fallback(m, o, s) ==
    [exc |-> "none", model |-> m, optimizers |-> o, schedulers |-> s,
     starting_epoch |-> 0, train_step |-> 0, val_step |-> 0,
     best_score |-> 0, best_metrics |-> EmptyMetrics]

\* what a raise inside the try body leaves behind: the exception and the
\* objects as the statements before it left them
resume_raise(x, m, o, s) ==
    [exc |-> x, model |-> m, optimizers |-> o, schedulers |-> s,
     starting_epoch |-> 0, train_step |-> 0, val_step |-> 0,
     best_score |-> 0, best_metrics |-> EmptyMetrics]

\* the try body of resume_train_state, statement by statement
resume_try(m, checkpoint, optimizers, schedulers) ==
    IF torch_load_exc(checkpoint.meta) # "none"
    THEN resume_raise(torch_load_exc(checkpoint.meta), m, optimizers, schedulers)
    ELSE IF ~checkpoint.meta[1].complete
    THEN resume_raise("KeyError", m, optimizers, schedulers)
    ELSE LET epoch_checkpoint == checkpoint.meta[1]
             m1 == load_pretrain_model(checkpoint.model, m)
         IN  IF torch_load_exc(checkpoint.optimizer) # "none"
             THEN resume_raise(torch_load_exc(checkpoint.optimizer), m1,
                               optimizers, schedulers)
             ELSE IF torch_load_exc(checkpoint.scheduler) # "none"
             THEN resume_raise(torch_load_exc(checkpoint.scheduler), m1,
                               checkpoint.optimizer[1], schedulers)
             ELSE [exc |-> "none", model |-> m1,
                   optimizers |-> checkpoint.optimizer[1],
                   schedulers |-> checkpoint.scheduler[1],
                   starting_epoch |-> epoch_checkpoint.epoch + 1,
                   train_step |-> epoch_checkpoint.train_step,
                   val_step |-> epoch_checkpoint.val_step,
                   best_score |-> epoch_checkpoint.best_score,
                   best_metrics |-> epoch_checkpoint.best_metrics]

\* the mutant of resume_train_state: no except branch
resume_train_state_no_except(m, checkpoint, optimizers, schedulers) ==
    resume_try(m, checkpoint, optimizers, schedulers)

\* resume_train_state: the try body, and the except branch for anything raised
resume_train_state(m, checkpoint, optimizers, schedulers) ==
    LET r == resume_try(m, checkpoint, optimizers, schedulers)
    IN  IF r.exc # "none"
        THEN resume_fallback(r.model, r.optimizers, r.schedulers)
        ELSE r

(***************************************************************************)
(* Pamain.py: the driver.                                                  *)
(***************************************************************************)
\* the model_store states a run can find: a checkpoint directory written by
\* an earlier run, whole or with a file absent or unreadable
InitCkpts ==
    LET meta == MetaRecord(0, 1, <<1, 0>>, 1, 1)
        full == [meta |-> File(meta), model |-> File(1),
                 optimizer |-> File(1), scheduler |-> File(1)]
    IN  { [meta |-> NoFile, model |-> NoFile, optimizer |-> NoFile, scheduler |-> NoFile],
          full,
          [full EXCEPT !.meta = NoFile],
          [full EXCEPT !.meta = File([meta EXCEPT !.complete = FALSE])],
          [full EXCEPT !.model = NoFile],
          [full EXCEPT !.optimizer = NoFile],
          [full EXCEPT !.scheduler = NoFile] }

InitBests ==
    { [meta |-> NoFile, model |-> NoFile],
      [meta |-> File(MetaRecord(0, 1, <<1, 0>>, 1, 1)), model |-> File(1)] }

\* the parts of config.yml the driver branches on, and len(train_loader)
Configs ==
    [resume_train : BOOLEAN, resume_test : BOOLEAN, is_train : BOOLEAN,
     val_training : BOOLEAN, num_epochs : 1..MaxEpochs, train_len : 0..MaxBatches]

\* the objects and counters of a freshly started process (lines 110-135)
Fresh ==
    /\ model = 0 /\ optimizer = 0 /\ scheduler = 0
    /\ train_step = 0 /\ val_step = 0 /\ start_num_epochs = 0
    /\ best_score = 0 /\ best_metrics = EmptyMetrics
    /\ epoch = -1 /\ score = 0 /\ metrics = EmptyMetrics
    /\ trace = << >> /\ resumed = "no"
    /\ pre = [model |-> 0, optimizer |-> 0, scheduler |-> 0]
    /\ run_max = 0 /\ prev_best = 0
    /\ opt_steps = 0 /\ epochs_run = << >>

\* no forward pass of EndoForm is under way
ShapeIdle ==
    /\ spc = "idle"
    /\ x_shape = << >> /\ pvt = << >> /\ feat = << >> /\ head_out = << >>
    /\ returned = << >> /\ err = "none"

\* no forward pass of the triplet classifier is under way
AttnIdle ==
    /\ apc = "idle"
    /\ params = 0 /\ inputs = << >> /\ query = << >> /\ key = << >>
    /\ value = << >> /\ scores = << >> /\ attention = << >> /\ out = << >>

\* the start of the driver is over: the tokenizer was extended and handed on
TokDone ==
    /\ tpc = "done"
    /\ vocab = {} /\ vocab0 = {} /\ all_list = << >> /\ add = << >>
    /\ num_added_toks = 0 /\ dataset_vocab = {} /\ model_vocab = {}

\* no stand-alone call of load_pretrain_model is under way
LoadIdle ==
    /\ lpc = "idle"
    /\ lp_path = << >> /\ lp_model = << >> /\ lp_state_dict = << >>
    /\ lp_e = "none" /\ lp_printed = << >> /\ lp_ret = << >>

\* no stand-alone call of train_one_epoch is under way
TrainIdle ==
    /\ epc = "idle"
    /\ te_args = << >> /\ te_epoch = 0 /\ te_step0 = 0 /\ te_step = 0
    /\ te_batch = 0 /\ te_grad = 0 /\ te_weights = 0
    /\ te_sched = << >> /\ te_events = << >>

\* no stand-alone call of resume_train_state is under way
ResumeIdle ==
    /\ rpc = "idle"
    /\ rs_dir = << >> /\ rs_model = 0 /\ rs_optimizers = << >>
    /\ rs_schedulers = << >> /\ rs_locals = << >> /\ rs_e = "none"
    /\ rs_ret = << >>

\* no multi-process launch is under way
ProcsIdle ==
    /\ mpc = << >> /\ mp_epoch = << >> /\ mp_best_score = << >> /\ mp_score = << >>
    /\ mp_open = {} /\ mp_writes = {} /\ mp_logdirs = {}

\* no stand-alone call of get_params_groups is under way
GroupsIdle ==
    /\ gpc = "idle" /\ gp_named = << >> /\ gp_model = << >>
    /\ regularized = << >> /\ not_regularized = << >> /\ gp_ret = << >>

\* no stand-alone call of get_weight_balancing is under way
WeightsIdle ==
    /\ wpc = "idle" /\ wb_config = << >> /\ wb_case = << >>
    /\ tool_weight = << >> /\ verb_weight = << >> /\ target_weight = << >>
    /\ wb_ret = << >>

\* no stand-alone construction of EndoForm is under way
BuildIdle ==
    /\ bpc = "idle" /\ b_args = << >> /\ b_stage = 0 /\ b_blocks = 0 /\ b_err = "none"

\* no stand-alone use of Logger is under way
LoggerIdle ==
    /\ logpc = "idle" /\ lg_logdir = "None" /\ lg_dirs = {} /\ lg_file = << >>
    /\ sys_stdout = "stdout" /\ sys_stderr = "stderr" /\ lg_self = << >>
    /\ console_out = << >> /\ console_closed = FALSE /\ lg_written = << >>
    /\ lg_e = "none"

Init ==
    /\ pc = "resume_train"
    /\ config \in Configs
    /\ runs = 1
    /\ ckpt \in InitCkpts
    /\ best \in InitBests
    /\ written = NoFile
    /\ Fresh
    /\ TokDone
    /\ AttnIdle
    /\ ShapeIdle
    /\ LoadIdle
    /\ TrainIdle
    /\ ResumeIdle
    /\ ProcsIdle
    /\ GroupsIdle
    /\ WeightsIdle
    /\ BuildIdle
    /\ LoggerIdle

\* Pamain.py:138-139
ResumeTrain ==
    /\ pc = "resume_train"
    /\ pre' = [model |-> model, optimizer |-> optimizer, scheduler |-> scheduler]
    /\ IF config.resume_train
       THEN LET r == resume_train_state(model, ckpt, optimizer, scheduler)
            IN  IF r.exc # "none"
                THEN /\ pc' = "crashed"
                     /\ resumed' = "raised"
                     /\ model' = r.model
                     /\ optimizer' = r.optimizers
                     /\ scheduler' = r.schedulers
                     /\ UNCHANGED <<start_num_epochs, train_step, val_step,
                                    best_score, best_metrics, run_max>>
                ELSE /\ pc' = "resume_test"
                     /\ resumed' = "called"
                     /\ model' = r.model
                     /\ optimizer' = r.optimizers
                     /\ scheduler' = r.schedulers
                     /\ start_num_epochs' = r.starting_epoch
                     /\ train_step' = r.train_step
                     /\ val_step' = r.val_step
                     /\ best_score' = r.best_score
                     /\ best_metrics' = r.best_metrics
                     /\ run_max' = r.best_score
       ELSE /\ pc' = "resume_test"
            /\ UNCHANGED <<resumed, model, optimizer, scheduler, start_num_epochs,
                           train_step, val_step, best_score, best_metrics, run_max>>
    /\ UNCHANGED <<config, runs, ckpt, best, epoch, score, metrics, trace,
                   prev_best, written>>
    /\ opt_steps' = IF config.resume_train
                       /\ resume_train_state(model, ckpt, optimizer,
                                             scheduler).starting_epoch > 0
                    THEN IF written # NoFile THEN written[1].opt_steps
                         ELSE ckpt.meta[1].train_step
                    ELSE 0
    /\ UNCHANGED epochs_run
    /\ UNCHANGED drv_others

\* Pamain.py:140-141
ResumeTest ==
    /\ pc = "resume_test"
    /\ pc' = "prepare"
    /\ model' = IF config.resume_test THEN load_pretrain_model(best.model, model)
                ELSE model
    /\ UNCHANGED <<config, runs, ckpt, best, optimizer, scheduler, train_step,
                   val_step, start_num_epochs, best_score, best_metrics, epoch,
                   score, metrics, trace, resumed, pre, run_max, prev_best, written>>
    /\ UNCHANGED <<opt_steps, epochs_run>>
    /\ UNCHANGED drv_others

\* the mutant of range_next: the stop value is taken as the last index
range_next_inclusive(e, stop) == IF e <= stop THEN e ELSE -1

\* range(start_num_epochs, num_epochs): the index after e, or -1 at the end
range_next(e, stop) == IF e < stop THEN e ELSE -1

\* Pamain.py:144-149: accelerator.prepare, then the branch on is_train and
\* the first iteration of the for loop
Prepare ==
    /\ pc = "prepare"
    /\ IF config.is_train
       THEN IF range_next(start_num_epochs, config.num_epochs) # -1
            THEN /\ pc' = "train"
                 /\ epoch' = range_next(start_num_epochs, config.num_epochs)
            ELSE /\ pc' = "report"
                 /\ UNCHANGED epoch
       ELSE /\ pc' = "val_only"
            /\ UNCHANGED epoch
    /\ prev_best' = best_score
    /\ trace' = << >>
    /\ UNCHANGED <<config, runs, ckpt, best, model, optimizer, scheduler, train_step,
                   val_step, start_num_epochs, best_score, best_metrics, score,
                   metrics, resumed, pre, run_max, written>>
    /\ UNCHANGED <<opt_steps, epochs_run>>
    /\ UNCHANGED drv_others

\* the mutant of body_next: the checkpoint is written before the best model
body_next_checkout_first(p) ==
    CASE p = "train" -> "val"
      [] p = "val"   -> "ckpt"
      [] p = "ckpt"  -> "best"
      [] p = "best"  -> "next"

\* the statement order of the loop body (Pamain.py:151, 152, 155, 169): the
\* position that follows position p
body_next(p) ==
    CASE p = "train" -> "val"
      [] p = "val"   -> "best"
      [] p = "best"  -> "ckpt"
      [] p = "ckpt"  -> "next"

\* the batches the loop of train_one_epoch processes: the loop body ends with
\* an unconditional break (line 65)
batches_processed(train_len) == Min(1, train_len)

\* the mutant of train_one_epoch_step: the count starts again in every epoch
train_one_epoch_step_restarts(step, train_len) == batches_processed(train_len)

\* the step counter train_one_epoch returns
train_one_epoch_step(step, train_len) == step + batches_processed(train_len)

\* Pamain.py:151 and 32-74
TrainOneEpoch ==
    /\ pc = "train"
    /\ pc' = body_next("train")
    /\ train_step' = train_one_epoch_step(train_step, config.train_len)
    /\ model' = model + batches_processed(config.train_len)
    /\ optimizer' = optimizer + batches_processed(config.train_len)
    /\ scheduler' = epoch
    /\ trace' = trace \o (IF config.val_training
                          THEN <<"train_one_epoch", "log_train_metrics">>
                          ELSE <<"train_one_epoch">>)
    /\ UNCHANGED <<config, runs, ckpt, best, val_step, start_num_epochs, best_score,
                   best_metrics, epoch, score, metrics, resumed, pre, run_max,
                   prev_best, written>>
    /\ opt_steps' = opt_steps + batches_processed(config.train_len)
    /\ epochs_run' = Append(epochs_run, epoch)
    /\ UNCHANGED drv_others

\* the step PA_val hands back for a pass over val_loader
PA_val_step(step) == step + 1

\* Pamain.py:152 and 76-87: PA_val yields the metrics; metrics['Val/IVT'] is
\* the score
ValOneEpoch ==
    /\ pc = "val"
    /\ pc' = body_next("val")
    /\ \E s \in 0..MaxScore, o \in 0..1 :
          /\ score' = s
          /\ metrics' = <<s, o>>
          /\ run_max' = Max(run_max, s)
    /\ val_step' = PA_val_step(val_step)
    /\ trace' = Append(trace, "val_one_epoch")
    /\ UNCHANGED <<config, runs, ckpt, best, model, optimizer, scheduler, train_step,
                   start_num_epochs, best_score, best_metrics, epoch, resumed, pre,
                   prev_best, written>>
    /\ UNCHANGED <<opt_steps, epochs_run>>
    /\ UNCHANGED drv_others

\* the mutant of improved: the last score always replaces the best
improved_always(bs, s) == TRUE

\* the mutant of improved: a score equal to the best counts as an improvement
improved_or_equal(bs, s) == bs <= s

\* Pamain.py:155
improved(bs, s) == bs < s

\* Pamain.py:154-165
SaveBest ==
    /\ pc = "best"
    /\ pc' = body_next("best")
    /\ IF improved(best_score, score)
       THEN /\ best_score' = score
            /\ best_metrics' = metrics
            /\ best' = [meta |-> File(MetaRecord(epoch, score, metrics,
                                                 train_step, val_step)),
                        model |-> File(model)]
            /\ trace' = Append(trace, "save_best")
       ELSE UNCHANGED <<best_score, best_metrics, best, trace>>
    /\ UNCHANGED <<config, runs, ckpt, model, optimizer, scheduler, train_step,
                   val_step, start_num_epochs, epoch, score, metrics, resumed, pre,
                   run_max, prev_best, written>>
    /\ UNCHANGED <<opt_steps, epochs_run>>
    /\ UNCHANGED drv_others

\* Pamain.py:167-172
Checkout ==
    /\ pc = "ckpt"
    /\ pc' = body_next("ckpt")
    /\ ckpt' = [meta |-> File(MetaRecord(epoch, best_score, best_metrics,
                                         train_step, val_step)),
                model |-> File(model),
                optimizer |-> File(optimizer),
                scheduler |-> File(scheduler)]
    /\ written' = File([epoch |-> epoch, best_score |-> best_score,
                        best_metrics |-> best_metrics, train_step |-> train_step,
                        val_step |-> val_step, opt_steps |-> opt_steps])
    /\ trace' = Append(trace, "checkout")
    /\ UNCHANGED <<config, runs, best, model, optimizer, scheduler, train_step,
                   val_step, start_num_epochs, best_score, best_metrics, epoch,
                   score, metrics, resumed, pre, run_max, prev_best>>
    /\ UNCHANGED <<opt_steps, epochs_run>>
    /\ UNCHANGED drv_others

\* Pamain.py:149: the for loop takes its next index or ends
LoopNext ==
    /\ pc = "next"
    /\ IF range_next(epoch + 1, config.num_epochs) # -1
       THEN /\ pc' = "train"
            /\ epoch' = range_next(epoch + 1, config.num_epochs)
       ELSE /\ pc' = "report"
            /\ UNCHANGED epoch
    /\ prev_best' = best_score
    /\ trace' = << >>
    /\ UNCHANGED <<config, runs, ckpt, best, model, optimizer, scheduler, train_step,
                   val_step, start_num_epochs, best_score, best_metrics, score,
                   metrics, resumed, pre, run_max, written>>
    /\ UNCHANGED <<opt_steps, epochs_run>>
    /\ UNCHANGED drv_others

\* Pamain.py:175-176: the argument list reads the loop variable epoch, which
\* is unbound when the loop never ran (NameError)
ValOnly ==
    /\ pc = "val_only"
    /\ IF epoch = -1
       THEN /\ pc' = "crashed"
            /\ UNCHANGED <<best_score, best_metrics, val_step, score, metrics, trace>>
       ELSE /\ pc' = "report"
            /\ \E s \in 0..MaxScore, o \in 0..1 :
                  /\ score' = s
                  /\ metrics' = <<s, o>>
                  /\ best_score' = s
                  /\ best_metrics' = <<s, o>>
            /\ val_step' = PA_val_step(val_step)
            /\ trace' = Append(trace, "val_one_epoch")
    /\ UNCHANGED <<config, runs, ckpt, best, model, optimizer, scheduler, train_step,
                   start_num_epochs, epoch, resumed, pre, run_max, prev_best, written>>
    /\ UNCHANGED <<opt_steps, epochs_run>>
    /\ UNCHANGED drv_others

\* Pamain.py:178-180
Report ==
    /\ pc = "report"
    /\ pc' = "exit"
    /\ UNCHANGED <<config, runs, ckpt, best, model, optimizer, scheduler, train_step,
                   val_step, start_num_epochs, best_score, best_metrics, epoch,
                   score, metrics, trace, resumed, pre, run_max, prev_best, written>>
    /\ UNCHANGED <<opt_steps, epochs_run>>
    /\ UNCHANGED drv_others

\* the process is killed between two calls of the training loop
Crash ==
    /\ pc \in {"val", "best", "ckpt", "next"}
    /\ pc' = "crashed"
    /\ UNCHANGED <<config, runs, ckpt, best, model, optimizer, scheduler, train_step,
                   val_step, start_num_epochs, best_score, best_metrics, epoch,
                   score, metrics, trace, resumed, pre, run_max, prev_best, written>>
    /\ UNCHANGED <<opt_steps, epochs_run>>
    /\ UNCHANGED drv_others

\* the script is started again on the same config.yml and model_store
\* (Pamain.py:89-135)
Restart ==
    /\ pc \in {"exit", "crashed"}
    /\ runs < MaxRuns
    /\ runs' = runs + 1
    /\ pc' = "resume_train"
    /\ model' = 0 /\ optimizer' = 0 /\ scheduler' = 0
    /\ train_step' = 0 /\ val_step' = 0 /\ start_num_epochs' = 0
    /\ best_score' = 0 /\ best_metrics' = EmptyMetrics
    /\ epoch' = -1 /\ score' = 0 /\ metrics' = EmptyMetrics
    /\ trace' = << >> /\ resumed' = "no"
    /\ pre' = [model |-> 0, optimizer |-> 0, scheduler |-> 0]
    /\ run_max' = 0 /\ prev_best' = 0
    /\ opt_steps' = 0 /\ epochs_run' = << >>
    /\ UNCHANGED <<config, ckpt, best, written>>
    /\ UNCHANGED drv_others

Next ==
    \/ ResumeTrain
    \/ ResumeTest
    \/ Prepare
    \/ TrainOneEpoch
    \/ ValOneEpoch
    \/ SaveBest
    \/ Checkout
    \/ LoopNext
    \/ ValOnly
    \/ Report
    \/ Crash
    \/ Restart

Spec == Init /\ [][Next]_vars

(***************************************************************************)
(* Claims on the driver and the checkpoint helpers, checked under Spec.    *)
(***************************************************************************)
\* a step of loading inside resume_train_state raises on checkpoint directory c:
\* the metadata file is missing or unreadable, a key is missing, or the
\* optimizer or scheduler file cannot be loaded
LoadingRaises(c) ==
    \/ c.meta = NoFile
    \/ (c.meta # NoFile /\ ~c.meta[1].complete)
    \/ c.optimizer = NoFile
    \/ c.scheduler = NoFile

\* the driver is just past the call of resume_train_state
JustResumed == pc = "resume_test" /\ resumed = "called"

\* C1: whenever a step of loading inside resume_train_state raises, the call
\* does not raise to the driver and returns starting epoch 0, train_step 0,
\* val_step 0, best score 0.0 and an empty best-metrics record
C1_FallbackOnLoadFailure ==
    /\ resumed # "raised"
    /\ (JustResumed /\ LoadingRaises(ckpt)) =>
          /\ start_num_epochs = 0
          /\ train_step = 0
          /\ val_step = 0
          /\ best_score = 0
          /\ best_metrics = EmptyMetrics

\* a fallback after the metadata was read (non-zero values) and a later
\* file failed
C1_Witness ==
    /\ JustResumed
    /\ ckpt.meta # NoFile /\ ckpt.meta[1].complete /\ ckpt.meta[1].best_score > 0
    /\ ckpt.model # NoFile
    /\ ckpt.scheduler = NoFile
    /\ start_num_epochs = 0

\* C2: after a fallback the model, optimizer and scheduler hold exactly the
\* state they had before the call, whichever loading step failed
C2_FallbackLeavesObjectsUntouched ==
    (JustResumed /\ LoadingRaises(ckpt)) =>
        /\ model = pre.model
        /\ optimizer = pre.optimizer
        /\ scheduler = pre.scheduler

\* C3: the metadata written at the end of epoch e comes back from a later
\* resume_train_state, with all files readable, as starting epoch e + 1 and
\* the same train_step, val_step, best_score and best_metrics
C3_MetadataRoundTrip ==
    (JustResumed /\ written # NoFile /\ ~LoadingRaises(ckpt)) =>
        /\ start_num_epochs = written[1].epoch + 1
        /\ train_step = written[1].train_step
        /\ val_step = written[1].val_step
        /\ best_score = written[1].best_score
        /\ best_metrics = written[1].best_metrics

\* a second run resumes from what the first run wrote after an improving epoch
C3_Witness ==
    /\ JustResumed
    /\ runs = 2
    /\ written # NoFile
    /\ ~LoadingRaises(ckpt)
    /\ start_num_epochs = written[1].epoch + 1
    /\ written[1].best_score > 0
    /\ written[1].train_step # written[1].val_step

\* C4: at the end of every training epoch best_score is the maximum of the
\* best score the run started with and the validation scores obtained so
\* far in the run, and it is not below the best score the epoch began with
C4_BestScoreIsRunningMax ==
    pc \in {"ckpt", "next"} =>
        /\ best_score = run_max
        /\ best_score >= prev_best

\* an epoch that scored below a resumed best score
C4_Witness ==
    /\ pc = "next"
    /\ resumed = "called"
    /\ prev_best > 0
    /\ score < prev_best
    /\ best_score = prev_best

\* the best-model write happened in the current epoch
BestWritten == \E i \in 1..Len(trace) : trace[i] = "save_best"

\* C5: the best directory and its metadata are written in epoch e iff the
\* epoch's score is strictly greater than the best score held before the
\* epoch; when written the metadata records epoch e, the new best score, the
\* epoch's metrics and the current train_step and val_step
C5_BestWrittenIffStrictlyBetter ==
    pc \in {"ckpt", "next"} =>
        /\ BestWritten <=> (score > prev_best)
        /\ BestWritten =>
              /\ best.meta # NoFile
              /\ best.meta[1].epoch = epoch
              /\ best.meta[1].best_score = score
              /\ best.meta[1].best_metrics = metrics
              /\ best.meta[1].train_step = train_step
              /\ best.meta[1].val_step = val_step
              /\ best_score = score

\* an epoch whose score equals a positive best score: nothing is written
C5_Witness ==
    /\ pc = "ckpt"
    /\ prev_best > 0
    /\ score = prev_best
    /\ ~BestWritten

\* C6: at the end of every training epoch e the checkpoint directory is
\* rewritten and its metadata holds epoch e with the best_score,
\* best_metrics, train_step and val_step the driver holds
C6_CheckpointEveryEpoch ==
    pc = "next" =>
        /\ ckpt.meta # NoFile
        /\ ckpt.meta[1].epoch = epoch
        /\ ckpt.meta[1].best_score = best_score
        /\ ckpt.meta[1].best_metrics = best_metrics
        /\ ckpt.meta[1].train_step = train_step
        /\ ckpt.meta[1].val_step = val_step
        /\ ckpt.model = File(model)
        /\ ckpt.optimizer = File(optimizer)
        /\ ckpt.scheduler = File(scheduler)

\* the end of the second epoch of a run, which did not improve
C6_Witness ==
    /\ pc = "next"
    /\ epoch = 1
    /\ ~BestWritten
    /\ ckpt.meta[1].epoch = 1

\* the driver-level calls of an epoch, without the metric logging inside
\* train_one_epoch
Calls == SelectSeq(trace, LAMBDA c : c # "log_train_metrics")

IsPrefix(s, t) == Len(s) <= Len(t) /\ SubSeq(t, 1, Len(s)) = s

\* C7: in every epoch the driver runs train_one_epoch, then exactly one
\* validation pass, then the conditional best-model write, then the
\* checkpoint write; the checkpoint write of epoch e is done before
\* train_one_epoch of epoch e + 1
C7_EpochOrdering ==
    /\ pc \in {"train", "val", "best", "ckpt", "next"} =>
          \/ IsPrefix(Calls, <<"train_one_epoch", "val_one_epoch", "save_best", "checkout">>)
          \/ IsPrefix(Calls, <<"train_one_epoch", "val_one_epoch", "checkout">>)
    /\ pc = "next" => Calls[Len(Calls)] = "checkout"
    /\ (pc = "train" /\ epoch > start_num_epochs) =>
          /\ trace = << >>
          /\ ckpt.meta # NoFile
          /\ ckpt.meta[1].epoch = epoch - 1

\* the second epoch of a run starts after an epoch that wrote both
C7_Witness ==
    /\ pc = "train"
    /\ epoch = start_num_epochs + 1
    /\ best.meta # NoFile /\ best.meta[1].epoch = epoch - 1
    /\ ckpt.meta[1].epoch = epoch - 1

(***************************************************************************)
(* The start of the driver (Pamain.py:97-110) and add_tokens_tokenizer     *)
(* (src/utils.py:275-285).                                                 *)
(***************************************************************************)
\* the words of the model are 1..MaxWords
MaxWords == 3

\* longest all_list
MaxListLen == 3

Words == 1..MaxWords

WordLists == UNION {[1..n -> Words] : n \in 0..MaxListLen}

Range(s) == {s[i] : i \in DOMAIN s}

\* the mutant of in_vocab: the membership test inverted
in_vocab_inverted(tokenizer_vocab, word) == word \notin tokenizer_vocab

\* utils.py:278
in_vocab(tokenizer_vocab, word) == word \in tokenizer_vocab

\* utils.py:276-282: the loop that collects the words to add, in list order
RECURSIVE collect_add(_, _)
collect_add(tokenizer_vocab, words) ==
    IF words = << >>
    THEN << >>
    ELSE IF in_vocab(tokenizer_vocab, Head(words))
         THEN collect_add(tokenizer_vocab, Tail(words))
         ELSE <<Head(words)>> \o collect_add(tokenizer_vocab, Tail(words))

\* utils.py:283: tokenizer.add_tokens extends the vocabulary with the tokens
\* it does not hold yet
add_tokens_vocab(tokenizer_vocab, tokens) == tokenizer_vocab \cup Range(tokens)

\* utils.py:283: and returns how many it added
add_tokens_count(tokenizer_vocab, tokens) == Cardinality(Range(tokens) \ tokenizer_vocab)

\* the driver has not reached the training setting; its training-phase
\* variables hold no value yet
DrvNotStarted ==
    /\ pc = "start"
    /\ config = [resume_train |-> FALSE, resume_test |-> FALSE, is_train |-> TRUE,
                 val_training |-> FALSE, num_epochs |-> 1, train_len |-> 0]
    /\ runs = 1
    /\ ckpt = [meta |-> NoFile, model |-> NoFile, optimizer |-> NoFile,
               scheduler |-> NoFile]
    /\ best = [meta |-> NoFile, model |-> NoFile]
    /\ written = NoFile
    /\ Fresh

TokInit ==
    /\ tpc = "tokenizer"
    /\ vocab = {} /\ vocab0 = {} /\ all_list = << >> /\ add = << >>
    /\ num_added_toks = 0 /\ dataset_vocab = {} /\ model_vocab = {}
    /\ DrvNotStarted
    /\ AttnIdle
    /\ ShapeIdle
    /\ LoadIdle
    /\ TrainIdle
    /\ ResumeIdle
    /\ ProcsIdle
    /\ GroupsIdle
    /\ WeightsIdle
    /\ BuildIdle
    /\ LoggerIdle

\* Pamain.py:98-103: the pretrained tokenizer and the three word lists
FromPretrained ==
    /\ tpc = "tokenizer"
    /\ tpc' = "add_tokens"
    /\ \E v \in SUBSET Words : vocab' = v /\ vocab0' = v
    /\ \E l \in WordLists : all_list' = l
    /\ UNCHANGED <<add, num_added_toks, dataset_vocab, model_vocab>>
    /\ UNCHANGED tok_others

\* Pamain.py:104 and utils.py:275-285
AddTokensTokenizer ==
    /\ tpc = "add_tokens"
    /\ tpc' = "dataset"
    /\ add' = collect_add(vocab, all_list)
    /\ num_added_toks' = add_tokens_count(vocab, collect_add(vocab, all_list))
    /\ vocab' = add_tokens_vocab(vocab, collect_add(vocab, all_list))
    /\ UNCHANGED <<vocab0, all_list, dataset_vocab, model_vocab>>
    /\ UNCHANGED tok_others

\* Pamain.py:107
GiveDataset ==
    /\ tpc = "dataset"
    /\ tpc' = "model"
    /\ dataset_vocab' = vocab
    /\ UNCHANGED <<vocab, vocab0, all_list, add, num_added_toks, model_vocab>>
    /\ UNCHANGED tok_others

\* Pamain.py:110
BuildModel ==
    /\ tpc = "model"
    /\ tpc' = "done"
    /\ model_vocab' = vocab
    /\ UNCHANGED <<vocab, vocab0, all_list, add, num_added_toks, dataset_vocab>>
    /\ UNCHANGED tok_others

TokNext ==
    \/ FromPretrained
    \/ AddTokensTokenizer
    \/ GiveDataset
    \/ BuildModel

SpecTok == TokInit /\ [][TokNext]_vars

\* C8: after add_tokens_tokenizer returns every word of all_list is in the
\* vocabulary; exactly the words that were not in the vocabulary were passed
\* to add_tokens; the dataset and the model are given the extended tokenizer
C8_AllWordsInVocabulary ==
    /\ tpc \in {"dataset", "model", "done"} =>
          /\ \A i \in DOMAIN all_list : all_list[i] \in vocab
          /\ Range(add) = Range(all_list) \ vocab0
          /\ num_added_toks = Cardinality(vocab \ vocab0)
    /\ tpc \in {"tokenizer", "add_tokens", "dataset"} => dataset_vocab = {}
    /\ tpc \in {"tokenizer", "add_tokens", "dataset", "model"} => model_vocab = {}
    /\ tpc \in {"model", "done"} => Range(all_list) \subseteq dataset_vocab
    /\ tpc = "done" => Range(all_list) \subseteq model_vocab

\* a list with a word the vocabulary held and a word it did not, after the
\* model was built
C8_Witness ==
    /\ tpc = "done"
    /\ Range(all_list) \cap vocab0 # {}
    /\ Range(all_list) \ vocab0 # {}
    /\ Len(add) >= 1
    /\ Len(add) < Len(all_list)
    /\ Range(all_list) \subseteq model_vocab

(***************************************************************************)
(* AttentionClassifier (src/models/EndoForm.py:659-708) on integer         *)
(* tensors.  A 2-D tensor is a sequence of rows.  The class counts 6, 15,  *)
(* 10 and 100 are scaled down; num_heads is the verb count as in           *)
(* EndoForm.__init__ (10 heads, 10 verbs), so that key_dim = t_num * v_num *)
(* stays divisible by it.  The positive factor 1 / sqrt(head_dim) of the   *)
(* scores is left out and exp is taken to base 2.                          *)
(***************************************************************************)
\* i_num: instrument classes
INum == 2

\* t_num: target classes
TNum == 2

\* v_num: verb classes
VNum == 2

\* num_class: triplet classes
NumClass == 2

\* largest batch size
MaxBatch == 2

\* parameter sets 1..MaxSeed
MaxSeed == 2

\* EndoForm.py:739: the arguments EndoForm passes to AttentionClassifier
num_heads == VNum

query_dim == INum * VNum

key_dim == TNum * VNum

value_dim == VNum * INum

\* EndoForm.py:667
head_dim == key_dim \div num_heads

RECURSIVE SumSeq(_)
SumSeq(s) == IF s = << >> THEN 0 ELSE Head(s) + SumSeq(Tail(s))

RECURSIVE Flatten(_)
Flatten(M) == IF M = << >> THEN << >> ELSE Head(M) \o Flatten(Tail(M))

RECURSIVE Times(_, _)
Times(s, k) == IF k = 0 THEN << >> ELSE s \o Times(s, k - 1)

RECURSIVE GCD(_, _)
GCD(a, b) == IF b = 0 THEN a ELSE GCD(b, a % b)

Abs(a) == IF a < 0 THEN 0 - a ELSE a

\* the number n / d, d > 0, in lowest terms
Frac(n, d) ==
    LET g == GCD(Abs(n), d)
    IN  <<n \div g, d \div g>>

FAdd(a, b) == Frac(a[1] * b[2] + b[1] * a[2], a[2] * b[2])

FScale(k, a) == Frac(k * a[1], a[2])

RECURSIVE FSum(_)
FSum(s) == IF s = << >> THEN <<0, 1>> ELSE FAdd(Head(s), FSum(Tail(s)))

RECURSIVE MinSeq(_)
MinSeq(s) == IF Len(s) = 1 THEN s[1] ELSE Min(s[1], MinSeq(Tail(s)))

\* x.repeat(1, 1, k) of a 2-D tensor (B, n): the 3-D tensor (1, B, n * k)
repeat_last(M, k) == << [b \in 1..Len(M) |-> Times(M[b], k)] >>

\* x.repeat(1, k, 1) of a 2-D tensor (B, n): the 3-D tensor (1, B * k, n)
repeat_rows(M, k) == << Times(M, k) >>

\* .view(-1, n) of a 3-D tensor: its elements in storage order, n to a row
view_rows(T, n) ==
    LET flat == Flatten(Flatten(T))
    IN  [r \in 1..(Len(flat) \div n) |-> SubSeq(flat, (r - 1) * n + 1, r * n)]

\* EndoForm.py:684
make_query(instrument) == view_rows(repeat_last(instrument, VNum), INum * VNum)

\* EndoForm.py:686
make_key(target) == view_rows(repeat_last(target, VNum), TNum * VNum)

\* EndoForm.py:688
make_value(verb) == view_rows(repeat_rows(verb, INum), VNum * INum)

\* the parameters: entry (o, c) of the weight and entry o of the bias of
\* layer 1 query_proj, 2 key_proj, 3 value_proj, 4 mlp under parameter set p
Weight(p, layer, o, c) == ((p * o + c + layer) % 3) - 1

Bias(p, layer, o) == (p + o + layer) % 2

\* nn.Linear(in_dim, out_dim) on the rows of X
Linear(p, layer, in_dim, out_dim, X) ==
    [r \in 1..Len(X) |->
        [o \in 1..out_dim |->
            Bias(p, layer, o)
            + SumSeq([c \in 1..in_dim |-> Weight(p, layer, o, c) * X[r][c]])]]

\* .view(batch_size, -1, num_heads, head_dim).transpose(1, 2): indexed
\* [b][h][l][d], l over the key_dim / (num_heads * head_dim) positions
split_heads(X) ==
    [b \in 1..Len(X) |->
        [h \in 1..num_heads |->
            [l \in 1..(Len(X[b]) \div (num_heads * head_dim)) |->
                [d \in 1..head_dim |->
                    X[b][((l - 1) * num_heads + (h - 1)) * head_dim + d]]]]]

\* EndoForm.py:694-696
project(p, layer, in_dim, X) == split_heads(Linear(p, layer, in_dim, key_dim, X))

\* EndoForm.py:699: query @ key.transpose(-2, -1), indexed [b][h][lq][lk]
matmul_scores(q, k) ==
    [b \in 1..Len(q) |->
        [h \in 1..num_heads |->
            [lq \in 1..Len(q[b][h]) |->
                [lk \in 1..Len(k[b][h]) |->
                    SumSeq([d \in 1..head_dim |-> q[b][h][lq][d] * k[b][h][lk][d]])]]]]

\* softmax of one row of scores
softmax_row(row) ==
    LET e == [j \in 1..Len(row) |-> 2 ^ (row[j] - MinSeq(row))]
    IN  [j \in 1..Len(row) |-> Frac(e[j], SumSeq(e))]

\* EndoForm.py:701: F.softmax(scores, dim=-1)
softmax_last(s) ==
    [b \in 1..Len(s) |->
        [h \in 1..num_heads |->
            [lq \in 1..Len(s[b][h]) |-> softmax_row(s[b][h][lq])]]]

\* EndoForm.py:704: attention @ value, indexed [b][h][lq][d]
matmul_values(a, v) ==
    [b \in 1..Len(a) |->
        [h \in 1..num_heads |->
            [lq \in 1..Len(a[b][h]) |->
                [d \in 1..head_dim |->
                    FSum([lk \in 1..Len(v[b][h]) |->
                             FScale(v[b][h][lk][d], a[b][h][lq][lk])])]]]]

\* EndoForm.py:705: .transpose(1, 2).contiguous().view(batch_size, -1,
\* num_heads * head_dim), indexed [b][l][c]
merge_heads(o) ==
    [b \in 1..Len(o) |->
        [l \in 1..Len(o[b][1]) |->
            [c \in 1..(num_heads * head_dim) |->
                o[b][((c - 1) \div head_dim) + 1][l][((c - 1) % head_dim) + 1]]]]

\* EndoForm.py:707: .squeeze(1) drops axis 1 when its size is 1
squeeze1(T) ==
    IF \A b \in 1..Len(T) : Len(T[b]) = 1
    THEN [b \in 1..Len(T) |-> T[b][1]]
    ELSE T

\* EndoForm.py:676: self.mlp on a row of fractions
mlp_row(p, row) ==
    [o \in 1..NumClass |->
        FAdd(<<Bias(p, 4, o), 1>>,
             FSum([c \in 1..key_dim |-> FScale(Weight(p, 4, o, c), row[c])]))]

\* EndoForm.py:707: self.mlp(out.squeeze(1))
mlp(p, T) ==
    LET sq == squeeze1(T)
    IN  IF \A b \in 1..Len(T) : Len(T[b]) = 1
        THEN [b \in 1..Len(sq) |-> mlp_row(p, sq[b])]
        ELSE [b \in 1..Len(sq) |-> [l \in 1..Len(sq[b]) |-> mlp_row(p, sq[b][l])]]

\* AttentionClassifier.forward: the triplet logits of the tuple x under
\* parameter set p
attention_forward(p, x) ==
    LET q == project(p, 1, query_dim, make_query(x.instrument))
        k == project(p, 2, key_dim, make_key(x.target))
        v == project(p, 3, value_dim, make_value(x.verb))
    IN  mlp(p, merge_heads(matmul_values(softmax_last(matmul_scores(q, k)), v)))

\* all logit tensors of shape (B, n) with entries 0 and 1
Tensors(B, n) == [1..B -> [1..n -> {0, 1}]]

\* the tensors of shape (B, n) with at most one entry 1
SparseTensors(B, n) ==
    {[b \in 1..B |-> [j \in 1..n |-> 0]]}
    \cup {[b \in 1..B |-> [j \in 1..n |-> IF b = bb /\ j = jj THEN 1 ELSE 0]] :
             bb \in 1..B, jj \in 1..n}

AttnInit ==
    /\ apc = "start"
    /\ params \in 1..MaxSeed
    /\ \E B \in 1..MaxBatch :
          inputs \in [instrument : SparseTensors(B, INum),
                      target : SparseTensors(B, TNum),
                      verb : SparseTensors(B, VNum)]
    /\ query = << >> /\ key = << >> /\ value = << >>
    /\ scores = << >> /\ attention = << >> /\ out = << >>
    /\ DrvNotStarted
    /\ TokDone
    /\ ShapeIdle
    /\ LoadIdle
    /\ TrainIdle
    /\ ResumeIdle
    /\ ProcsIdle
    /\ GroupsIdle
    /\ WeightsIdle
    /\ BuildIdle
    /\ LoggerIdle

\* EndoForm.py:679-691
RepeatView ==
    /\ apc = "start"
    /\ apc' = "project"
    /\ query' = make_query(inputs.instrument)
    /\ key' = make_key(inputs.target)
    /\ value' = make_value(inputs.verb)
    /\ UNCHANGED <<params, inputs, scores, attention, out>>
    /\ UNCHANGED attn_others

\* EndoForm.py:694-696
Project ==
    /\ apc = "project"
    /\ apc' = "scores"
    /\ query' = project(params, 1, query_dim, query)
    /\ key' = project(params, 2, key_dim, key)
    /\ value' = project(params, 3, value_dim, value)
    /\ UNCHANGED <<params, inputs, scores, attention, out>>
    /\ UNCHANGED attn_others

\* EndoForm.py:699
Scores ==
    /\ apc = "scores"
    /\ apc' = "softmax"
    /\ scores' = matmul_scores(query, key)
    /\ UNCHANGED <<params, inputs, query, key, value, attention, out>>
    /\ UNCHANGED attn_others

\* EndoForm.py:701
Softmax ==
    /\ apc = "softmax"
    /\ apc' = "aggregate"
    /\ attention' = softmax_last(scores)
    /\ UNCHANGED <<params, inputs, query, key, value, scores, out>>
    /\ UNCHANGED attn_others

\* EndoForm.py:704-705
Aggregate ==
    /\ apc = "aggregate"
    /\ apc' = "mlp"
    /\ out' = merge_heads(matmul_values(attention, value))
    /\ UNCHANGED <<params, inputs, query, key, value, scores, attention>>
    /\ UNCHANGED attn_others

\* EndoForm.py:707-708
Mlp ==
    /\ apc = "mlp"
    /\ apc' = "done"
    /\ out' = mlp(params, out)
    /\ UNCHANGED <<params, inputs, query, key, value, scores, attention>>
    /\ UNCHANGED attn_others

AttnNext ==
    \/ RepeatView
    \/ Project
    \/ Scores
    \/ Softmax
    \/ Aggregate
    \/ Mlp

SpecAttn == AttnInit /\ [][AttnNext]_vars


\* all input tuples of batch size B
InputTuples(B) ==
    [instrument : Tensors(B, INum), target : Tensors(B, TNum), verb : Tensors(B, VNum)]

\* under parameter set p there are two tuples of batch size B that differ
\* only in the instrument logits and give different triplet logits
DependsOnInstrument(p, B) ==
    \E x \in InputTuples(B), y \in Tensors(B, INum) :
        attention_forward(p, [x EXCEPT !.instrument = y]) # attention_forward(p, x)

\* the same for the target logits
DependsOnTarget(p, B) ==
    \E x \in InputTuples(B), y \in Tensors(B, TNum) :
        attention_forward(p, [x EXCEPT !.target = y]) # attention_forward(p, x)

\* the same for the verb logits
DependsOnVerb(p, B) ==
    \E x \in InputTuples(B), y \in Tensors(B, VNum) :
        attention_forward(p, [x EXCEPT !.verb = y]) # attention_forward(p, x)

\* C9: the triplet logits of AttentionClassifier.forward depend on each of
\* the instrument, the target and the verb logits: for each of the three
\* there are two input tuples differing only in it with different triplet
\* logits
C9_TripletDependsOnAllThree ==
    apc = "done" =>
        /\ DependsOnInstrument(params, Len(inputs.verb))
        /\ DependsOnTarget(params, Len(inputs.verb))
        /\ DependsOnVerb(params, Len(inputs.verb))

(***************************************************************************)
(* Tensor shapes.  A shape is [err, dims]: dims is the size tuple, err is  *)
(* "none", or names what the operation that produced it raised:            *)
(* "mismatch" for operands of incompatible shapes, "too_small" for an      *)
(* input too small for a kernel, a pooling window or a batch statistic.    *)
(***************************************************************************)
Sh(dims) == [err |-> "none", dims |-> dims]

Raise(e) == [err |-> e, dims |-> << >>]

RECURSIVE Prod(_)
Prod(s) == IF s = << >> THEN 1 ELSE Head(s) * Prod(Tail(s))

\* nn.Conv2d(cin, cout, kernel_size=k, stride=stride, padding=pad), grouped
\* or not
Conv2d(s, cin, cout, k, stride, pad) ==
    IF s.err # "none" THEN s
    ELSE IF Len(s.dims) # 4 \/ s.dims[2] # cin THEN Raise("mismatch")
    ELSE IF s.dims[3] + 2 * pad < k \/ s.dims[4] + 2 * pad < k THEN Raise("too_small")
    ELSE Sh(<<s.dims[1], cout, ((s.dims[3] + 2 * pad - k) \div stride) + 1,
              ((s.dims[4] + 2 * pad - k) \div stride) + 1>>)

\* nn.MaxPool2d(kernel_size=k, stride=stride)
MaxPool2d(s, k, stride) ==
    IF s.err # "none" THEN s
    ELSE IF Len(s.dims) # 4 THEN Raise("mismatch")
    ELSE IF s.dims[3] < k \/ s.dims[4] < k THEN Raise("too_small")
    ELSE Sh(<<s.dims[1], s.dims[2], ((s.dims[3] - k) \div stride) + 1,
              ((s.dims[4] - k) \div stride) + 1>>)

\* nn.BatchNorm2d(c) in training mode: more than one value per channel
BatchNorm2d(s, c) ==
    IF s.err # "none" THEN s
    ELSE IF Len(s.dims) # 4 \/ s.dims[2] # c THEN Raise("mismatch")
    ELSE IF s.dims[1] * s.dims[3] * s.dims[4] <= 1 THEN Raise("too_small")
    ELSE s

\* nn.GroupNorm(groups, c)
GroupNorm(s, groups, c) ==
    IF s.err # "none" THEN s
    ELSE IF Len(s.dims) < 2 \/ s.dims[2] # c \/ c % groups # 0 THEN Raise("mismatch")
    ELSE s

\* nn.LayerNorm(c) and nn.Linear(cin, cout) act on the last axis
LayerNorm(s, c) ==
    IF s.err # "none" THEN s
    ELSE IF Len(s.dims) = 0 \/ s.dims[Len(s.dims)] # c THEN Raise("mismatch")
    ELSE s

LinearSh(s, cin, cout) ==
    IF s.err # "none" THEN s
    ELSE IF Len(s.dims) = 0 \/ s.dims[Len(s.dims)] # cin THEN Raise("mismatch")
    ELSE Sh([s.dims EXCEPT ![Len(s.dims)] = cout])

\* F.adaptive_avg_pool2d(x, (1, 1))
AdaptiveAvgPool11(s) ==
    IF s.err # "none" THEN s
    ELSE IF Len(s.dims) # 4 THEN Raise("mismatch")
    ELSE Sh(<<s.dims[1], s.dims[2], 1, 1>>)

\* Tensor.view / Tensor.reshape to tgt, which may hold one -1
View(s, tgt) ==
    IF s.err # "none" THEN s
    ELSE LET known == Prod(SelectSeq(tgt, LAMBDA n : n # -1))
             holes == Len(SelectSeq(tgt, LAMBDA n : n = -1))
             total == Prod(s.dims)
         IN  IF holes = 0
             THEN IF known = total THEN Sh(tgt) ELSE Raise("mismatch")
             ELSE IF holes > 1 \/ known = 0 \/ total % known # 0
                  THEN Raise("mismatch")
                  ELSE Sh([i \in 1..Len(tgt) |->
                              IF tgt[i] = -1 THEN total \div known ELSE tgt[i]])

\* Tensor.permute(perm), axes counted from 1
Permute(s, perm) ==
    IF s.err # "none" THEN s
    ELSE IF Len(s.dims) # Len(perm) THEN Raise("mismatch")
    ELSE Sh([i \in 1..Len(perm) |-> s.dims[perm[i]]])

\* Tensor.transpose(i, j), axes counted from 1
Transpose(s, i, j) ==
    IF s.err # "none" THEN s
    ELSE IF Len(s.dims) < i \/ Len(s.dims) < j THEN Raise("mismatch")
    ELSE Sh([s.dims EXCEPT ![i] = s.dims[j], ![j] = s.dims[i]])

\* Tensor.transpose(-2, -1)
TransposeLast(s) ==
    IF s.err # "none" THEN s
    ELSE IF Len(s.dims) < 2 THEN Raise("mismatch")
    ELSE Transpose(s, Len(s.dims) - 1, Len(s.dims))

\* a @ b for tensors of the same rank with equal leading axes
Matmul(a, b) ==
    IF a.err # "none" THEN a
    ELSE IF b.err # "none" THEN b
    ELSE LET n == Len(a.dims)
         IN  IF n < 2 \/ Len(b.dims) # n THEN Raise("mismatch")
             ELSE IF SubSeq(a.dims, 1, n - 2) # SubSeq(b.dims, 1, n - 2)
                     \/ a.dims[n] # b.dims[n - 1]
                  THEN Raise("mismatch")
                  ELSE Sh([a.dims EXCEPT ![n] = b.dims[n]])

\* a + b and a * b without broadcasting
AddSame(a, b) ==
    IF a.err # "none" THEN a
    ELSE IF b.err # "none" THEN b
    ELSE IF a.dims # b.dims THEN Raise("mismatch")
    ELSE a

\* torch.cat([a, b], dim=1)
Cat1(a, b) ==
    IF a.err # "none" THEN a
    ELSE IF b.err # "none" THEN b
    ELSE IF Len(a.dims) # Len(b.dims) \/ Len(a.dims) < 2 THEN Raise("mismatch")
    ELSE IF [a.dims EXCEPT ![2] = 0] # [b.dims EXCEPT ![2] = 0] THEN Raise("mismatch")
    ELSE Sh([a.dims EXCEPT ![2] = a.dims[2] + b.dims[2]])

\* the i-th piece of x.chunk(2, dim=1)
Chunk2(s, i) ==
    IF s.err # "none" THEN s
    ELSE IF Len(s.dims) < 2 THEN Raise("mismatch")
    ELSE LET first == (s.dims[2] + 1) \div 2
         IN  Sh([s.dims EXCEPT ![2] = IF i = 1 THEN first ELSE s.dims[2] - first])

\* Tensor.repeat(reps) with at least as many repeats as axes
Repeat(s, reps) ==
    IF s.err # "none" THEN s
    ELSE IF Len(reps) < Len(s.dims) THEN Raise("mismatch")
    ELSE LET lead == Len(reps) - Len(s.dims)
         IN  Sh([i \in 1..Len(reps) |->
                    IF i <= lead THEN reps[i] ELSE reps[i] * s.dims[i - lead]])

\* Tensor.squeeze(1), axes counted from 0
Squeeze1(s) ==
    IF s.err # "none" THEN s
    ELSE IF Len(s.dims) >= 2 /\ s.dims[2] = 1
         THEN Sh(<<s.dims[1]>> \o SubSeq(s.dims, 3, Len(s.dims)))
         ELSE s

\* the mutant of Upsample: the feature map handed on at its own size
Upsample_skipped(s, size) == s

\* EndoForm.Upsample: F.interpolate(x, size=size, mode='bilinear')
Upsample(s, size) ==
    IF s.err # "none" THEN s
    ELSE IF Len(s.dims) # 4 \/ Len(size) # 2 THEN Raise("mismatch")
    ELSE Sh(<<s.dims[1], s.dims[2], size[1], size[2]>>)

\* x.size()[2:]
Size2(s) == IF s.err # "none" THEN << >> ELSE SubSeq(s.dims, 3, Len(s.dims))

(***************************************************************************)
(* The backbone pvt_v2_b2 on shapes (EndoForm.py:14-362).                  *)
(***************************************************************************)
\* EndoForm.py:358 and 712: embed_dims
embed_dims == <<64, 128, 320, 512>>

\* a head count of 3 in the third stage
pvt_num_heads_3 == <<1, 2, 3, 8>>

\* EndoForm.py:360-361: num_heads, mlp_ratios, sr_ratios of pvt_v2_b2
pvt_num_heads == <<1, 2, 5, 8>>

pvt_mlp_ratios == <<8, 8, 4, 4>>

pvt_sr_ratios == <<8, 4, 2, 1>>

\* EndoForm.py:216-223: patch_size and stride of the four patch embeddings
pvt_patch_sizes == <<7, 3, 3, 3>>

pvt_strides == <<4, 2, 2, 2>>

\* the mutant of OverlapPatchEmbed: the projection built without padding
OverlapPatchEmbed_no_padding(s, k, stride, cin, embed_dim) ==
    Conv2d(s, cin, embed_dim, k, stride, 0)

\* OverlapPatchEmbed.forward: the projected map (B, embed_dim, H, W)
OverlapPatchEmbed(s, k, stride, cin, embed_dim) ==
    Conv2d(s, cin, embed_dim, k, stride, k \div 2)

\* the token tensor (B, H * W, C) of a map (B, C, H, W):
\* x.flatten(2).transpose(1, 2)
Tokens(m) ==
    IF m.err # "none" THEN m
    ELSE IF Len(m.dims) # 4 THEN Raise("mismatch")
    ELSE Sh(<<m.dims[1], m.dims[3] * m.dims[4], m.dims[2]>>)

\* Attention.forward on tokens t of a map of size H x W
PvtAttention(t, H, W, dim, nh, sr) ==
    IF t.err # "none" THEN t
    ELSE IF Len(t.dims) # 3 \/ dim % nh # 0 THEN Raise("mismatch")
    ELSE LET B == t.dims[1]
             N == t.dims[2]
             C == t.dims[3]
             q == Permute(View(LinearSh(t, dim, dim), <<B, N, nh, C \div nh>>),
                          <<1, 3, 2, 4>>)
             x_ == IF sr > 1
                   THEN LayerNorm(
                            Permute(View(Conv2d(View(Permute(t, <<1, 3, 2>>),
                                                     <<B, C, H, W>>),
                                                dim, dim, sr, sr, 0),
                                         <<B, C, -1>>),
                                    <<1, 3, 2>>),
                            dim)
                   ELSE t
             kv == Permute(View(LinearSh(x_, dim, dim * 2),
                                <<B, -1, 2, nh, C \div nh>>),
                           <<3, 1, 4, 2, 5>>)
             k == IF kv.err # "none" THEN kv ELSE Sh(Tail(kv.dims))
             v == IF kv.err # "none" THEN kv ELSE Sh(Tail(kv.dims))
             attn == Matmul(q, TransposeLast(k))
         IN  LinearSh(View(Transpose(Matmul(attn, v), 2, 3), <<B, N, C>>), dim, dim)

\* Mlp.forward with its DWConv
PvtMlp(t, H, W, dim, hidden) ==
    IF t.err # "none" THEN t
    ELSE IF Len(t.dims) # 3 THEN Raise("mismatch")
    ELSE LET h == LinearSh(t, dim, hidden)
             dw == Tokens(Conv2d(View(Transpose(h, 2, 3),
                                      <<t.dims[1], hidden, H, W>>),
                                 hidden, hidden, 3, 1, 1))
         IN  LinearSh(dw, hidden, dim)

\* Block.forward: two residual sums
PvtBlock(t, H, W, dim, nh, ratio, sr) ==
    LET a == AddSame(t, PvtAttention(LayerNorm(t, dim), H, W, dim, nh, sr))
    IN  AddSame(a, PvtMlp(LayerNorm(a, dim), H, W, dim, dim * ratio))

\* pvt_v2_b2: depths
pvt_depths == <<3, 4, 6, 3>>

\* for i, blk in enumerate(self.blockN): x = blk(x, H, W), n blocks
RECURSIVE PvtBlocks(_, _, _, _, _, _, _, _)
PvtBlocks(t, n, H, W, dim, nh, ratio, sr) ==
    IF n = 0 THEN t
    ELSE PvtBlocks(PvtBlock(t, H, W, dim, nh, ratio, sr), n - 1, H, W, dim, nh,
                   ratio, sr)

\* one stage of forward_features: patch embedding, the blocks, norm, reshape
\* to (B, C, H, W)
PvtStage(s, i, cin) ==
    LET m == OverlapPatchEmbed(s, pvt_patch_sizes[i], pvt_strides[i], cin,
                               embed_dims[i])
    IN  IF m.err # "none" THEN m
        ELSE LET H == m.dims[3]
                 W == m.dims[4]
                 t == PvtBlocks(LayerNorm(Tokens(m), embed_dims[i]), pvt_depths[i],
                                H, W, embed_dims[i], pvt_num_heads[i],
                                pvt_mlp_ratios[i], pvt_sr_ratios[i])
             IN  Permute(View(LayerNorm(t, embed_dims[i]), <<m.dims[1], H, W, -1>>),
                         <<1, 4, 2, 3>>)

\* PyramidVisionTransformerImpr.forward_features, one stage at a time: the
\* feature map that stage Len(outs) + 1 appends to outs, from the input s
\* (stage 1) or from the map of the stage before
forward_features(outs, s, in_chans) ==
    IF outs = << >> THEN PvtStage(s, 1, in_chans)
    ELSE PvtStage(outs[Len(outs)], Len(outs) + 1, embed_dims[Len(outs)])

(***************************************************************************)
(* The heads of EndoForm on shapes (EndoForm.py:381-774).                  *)
(***************************************************************************)
\* EndoForm.py:712: the default arguments of EndoForm
in_channels == 3

total_channels == 100

i_channels == 6

t_channels == 15

v_channels == 10

endo_num_heads == 10

out_dim == 32

kernel_size == 3

mlp_ratio == 4

\* BasicConv2d.forward: conv, bn, act
BasicConv2d(s, cin, cout, k, stride, pad) ==
    BatchNorm2d(Conv2d(s, cin, cout, k, stride, pad), cout)

\* MLP.forward
MLP(s, dim, ratio) ==
    Conv2d(Conv2d(s, dim, dim * ratio, 1, 1, 0), dim * ratio, dim, 1, 1, 0)

\* GobleAttention.forward
GobleAttention(s, in_dim, od, ks, ratio) ==
    LET identity == GroupNorm(Conv2d(s, in_dim, od, 3, 1, 1), od \div 2, od)
        mixed == AddSame(AddSame(BatchNorm2d(Conv2d(identity, od, od, ks, 1,
                                                    (ks - 1) \div 2), od),
                                 BatchNorm2d(Conv2d(identity, od, od, 1, 1, 0), od)),
                         identity)
    IN  AddSame(MLP(mixed, od, ratio), identity)

\* LocalAttention.forward
LocalAttention(s, in_dim, od) ==
    Conv2d(BatchNorm2d(Conv2d(Conv2d(BatchNorm2d(s, in_dim), in_dim, in_dim, 1, 1, 0),
                              in_dim, in_dim, 3, 1, 1),
                       in_dim),
           in_dim, od, 1, 1, 0)

\* AttentionBlock.forward
AttentionBlock(s, in_dim, od, ks, ratio) ==
    BasicConv2d(Cat1(GobleAttention(Chunk2(s, 1), in_dim \div 2, od, ks, ratio),
                     LocalAttention(Chunk2(s, 2), in_dim \div 2, od)),
                od * 2, od, 1, 1, 0)

\* VerbClassifier.forward
VerbClassifier(s, cin, verb_channels) ==
    LET pooled == AdaptiveAvgPool11(s)
    IN  IF pooled.err # "none" THEN pooled
        ELSE LinearSh(View(pooled, <<pooled.dims[1], -1>>), cin, verb_channels)

\* CrossAttention.forward(x1, x2)
CrossAttention(x1, x2, feature_dim) ==
    LET q == Conv2d(x1, feature_dim, feature_dim \div 8, 1, 1, 0)
        k == Conv2d(x2, feature_dim, feature_dim \div 8, 1, 1, 0)
        v == Conv2d(x2, feature_dim, feature_dim, 1, 1, 0)
        attn == Matmul(Permute(q, <<1, 3, 4, 2>>),
                       TransposeLast(Permute(k, <<1, 3, 4, 2>>)))
        o == Permute(Matmul(attn, Permute(v, <<1, 3, 4, 2>>)), <<1, 4, 2, 3>>)
    IN  AddSame(o, x1)

\* SiameseNetworkWithCrossAttention.shared_conv
shared_conv(s, cin) ==
    MaxPool2d(Conv2d(MaxPool2d(Conv2d(s, cin, 64, 3, 2, 1), 2, 2), 64, 128, 3, 2, 1),
              2, 2)

\* SiameseNetworkWithCrossAttention.forward: class1_features, class2_features
SiameseNetworkWithCrossAttention(img1, img2, cin, output_dim1, output_dim2) ==
    LET f1 == shared_conv(img1, cin)
        f2 == shared_conv(img2, cin)
        p1 == AdaptiveAvgPool11(CrossAttention(f1, f2, 128))
        p2 == AdaptiveAvgPool11(CrossAttention(f2, f1, 128))
    IN  <<LinearSh(View(p1, <<-1, 128>>), 128, output_dim1),
          LinearSh(View(p2, <<-1, 128>>), 128, output_dim2)>>

\* the last axis of a shape: x.size()[-1]
LastDim(s) == IF s.err # "none" \/ Len(s.dims) = 0 THEN 0 ELSE s.dims[Len(s.dims)]

\* AttentionClassifier.forward on shapes, built with query_dim qd, key_dim kd,
\* value_dim vd, nh heads and nc classes
AttentionClassifierSh(instrument, target, verb, qd, kd, vd, nh, nc) ==
    IF instrument.err # "none" THEN instrument
    ELSE IF target.err # "none" THEN target
    ELSE IF verb.err # "none" THEN verb
    ELSE LET i_num == LastDim(instrument)
             t_num == LastDim(target)
             v_num == LastDim(verb)
             hd == kd \div nh
             q0 == View(Repeat(instrument, <<1, 1, v_num>>), <<-1, i_num * v_num>>)
             k0 == View(Repeat(target, <<1, 1, v_num>>), <<-1, t_num * v_num>>)
             v0 == View(Repeat(verb, <<1, i_num, 1>>), <<-1, v_num * i_num>>)
         IN  IF q0.err # "none" THEN q0
             ELSE LET batch_size == q0.dims[1]
                      q == Transpose(View(LinearSh(q0, qd, kd),
                                          <<batch_size, -1, nh, hd>>), 2, 3)
                      k == Transpose(View(LinearSh(k0, kd, kd),
                                          <<batch_size, -1, nh, hd>>), 2, 3)
                      v == Transpose(View(LinearSh(v0, vd, kd),
                                          <<batch_size, -1, nh, hd>>), 2, 3)
                      sc == Matmul(q, TransposeLast(k))
                      o == View(Transpose(Matmul(sc, v), 2, 3),
                                <<batch_size, -1, nh * hd>>)
                  IN  LinearSh(Squeeze1(o), kd, nc)

\* the first error among the shapes of ss, "none" if there is none
RECURSIVE FirstErr(_)
FirstErr(ss) ==
    IF ss = << >> THEN "none"
    ELSE IF Head(ss).err # "none" THEN Head(ss).err
    ELSE FirstErr(Tail(ss))

\* input sizes: below and above what every stage accepts, multiples of 32
\* and not, square and not
Sizes == {16, 28, 29, 40, 41, 47, 224, 250, 256, 448}

ShapeInit ==
    /\ spc = "backbone"
    /\ \E B \in 1..MaxBatch, H \in Sizes, W \in Sizes :
          x_shape = Sh(<<B, in_channels, H, W>>)
    /\ pvt = << >> /\ feat = << >> /\ head_out = << >>
    /\ returned = << >> /\ err = "none"
    /\ DrvNotStarted
    /\ TokDone
    /\ AttnIdle
    /\ LoadIdle
    /\ TrainIdle
    /\ ResumeIdle
    /\ ProcsIdle
    /\ GroupsIdle
    /\ WeightsIdle
    /\ BuildIdle
    /\ LoggerIdle

\* EndoForm.py:753-754: self.backbone(x), stage by stage; c1, c2, c3, c4 are
\* pvt[1..4]
Backbone ==
    /\ spc = "backbone"
    /\ LET o == forward_features(pvt, x_shape, in_channels)
       IN  /\ pvt' = Append(pvt, o)
           /\ err' = o.err
           /\ spc' = IF o.err # "none" THEN "raised"
                     ELSE IF Len(pvt) = 3 THEN "block4"
                     ELSE "backbone"
    /\ UNCHANGED <<x_shape, feat, head_out, returned>>
    /\ UNCHANGED shp_others

\* EndoForm.py:756-760: _c4, upsampled to the size of c3, then _c3 and _c2
Blocks ==
    /\ spc = "block4"
    /\ LET c4b == Upsample(AttentionBlock(pvt[4], embed_dims[4], out_dim,
                                          kernel_size, mlp_ratio),
                           Size2(pvt[3]))
           c3b == AttentionBlock(pvt[3], embed_dims[3], out_dim,
                                 kernel_size, mlp_ratio)
           c2b == AttentionBlock(pvt[2], embed_dims[2], out_dim,
                                 kernel_size, mlp_ratio)
       IN  /\ feat' = [c4b |-> c4b, c3b |-> c3b, c2b |-> c2b]
           /\ err' = FirstErr(<<c4b, c3b, c2b>>)
           /\ spc' = IF FirstErr(<<c4b, c3b, c2b>>) # "none" THEN "raised" ELSE "verb"
    /\ UNCHANGED <<x_shape, pvt, head_out, returned>>
    /\ UNCHANGED shp_others

\* EndoForm.py:762-764: the fused map and verb_output
Verb ==
    /\ spc = "verb"
    /\ LET fused == Cat1(Upsample(feat.c4b, Size2(pvt[2])),
                         Upsample(feat.c3b, Size2(pvt[2])))
           output == Conv2d(BasicConv2d(fused, out_dim * 2, out_dim, 1, 1, 0),
                            out_dim, v_channels, 1, 1, 0)
           verb_output == VerbClassifier(output, v_channels, v_channels)
       IN  /\ head_out' = [verb_output |-> verb_output]
           /\ err' = FirstErr(<<fused, output, verb_output>>)
           /\ spc' = IF FirstErr(<<fused, output, verb_output>>) # "none"
                     THEN "raised" ELSE "two_classifier"
    /\ UNCHANGED <<x_shape, pvt, feat, returned>>
    /\ UNCHANGED shp_others

\* EndoForm.py:766-770: L_feature, H_feature and the two-branch classifier
TwoClassifier ==
    /\ spc = "two_classifier"
    /\ LET L_feature == BasicConv2d(pvt[1], embed_dims[1], out_dim, 3, 1, 1)
           H_feature == Upsample(BasicConv2d(feat.c2b, out_dim, out_dim,
                                             1, 1, 0),
                                 Size2(L_feature))
           two == SiameseNetworkWithCrossAttention(L_feature, H_feature, out_dim, i_channels,
                                 t_channels)
       IN  /\ head_out' = [verb_output |-> head_out.verb_output,
                           instrument_output |-> two[1],
                           target_output |-> two[2]]
           /\ err' = FirstErr(<<L_feature, H_feature, two[1], two[2]>>)
           /\ spc' = IF FirstErr(<<L_feature, H_feature, two[1], two[2]>>) # "none"
                     THEN "raised" ELSE "classifier"
    /\ UNCHANGED <<x_shape, pvt, feat, returned>>
    /\ UNCHANGED shp_others

\* EndoForm.py:772-774: triplet_output and the returned tuple
Classifier ==
    /\ spc = "classifier"
    /\ LET triplet_output ==
               AttentionClassifierSh(head_out.instrument_output,
                                     head_out.target_output, head_out.verb_output,
                                     i_channels * v_channels, t_channels * v_channels,
                                     v_channels * i_channels, endo_num_heads,
                                     total_channels)
       IN  /\ err' = triplet_output.err
           /\ IF triplet_output.err # "none"
              THEN /\ spc' = "raised"
                   /\ UNCHANGED returned
              ELSE /\ spc' = "returned"
                   /\ returned' = <<head_out.instrument_output, head_out.verb_output,
                                    head_out.target_output, triplet_output>>
    /\ UNCHANGED <<x_shape, pvt, feat, head_out>>
    /\ UNCHANGED shp_others

ShapeNext ==
    \/ Backbone
    \/ Blocks
    \/ Verb
    \/ TwoClassifier
    \/ Classifier

SpecShape == ShapeInit /\ [][ShapeNext]_vars

\* C10: for a batch of B images whose size every stage accepts,
\* EndoForm.forward returns the shapes (B, 6), (B, 10), (B, 15), (B, 100) in
\* the order instrument, verb, target, triplet, and no concatenation,
\* upsample, view or other operation of the pass meets operands of
\* incompatible shapes
C10_ForwardShapes ==
    /\ err # "mismatch"
    /\ spc = "returned" =>
          returned = <<Sh(<<x_shape.dims[1], 6>>), Sh(<<x_shape.dims[1], 10>>),
                       Sh(<<x_shape.dims[1], 15>>), Sh(<<x_shape.dims[1], 100>>)>>

\* a batch of two images whose sides are no multiples of 32
C10_Witness ==
    /\ spc = "returned"
    /\ x_shape.dims = <<2, 3, 250, 47>>
    /\ returned[4].dims = <<2, 100>>

(***************************************************************************)
(* Claims on the backbone, checked under SpecShape.                        *)
(***************************************************************************)
\* the least integer not below a / b
CeilDiv(a, b) == (a + b - 1) \div b

\* the four feature maps the claim names for an input (B, 3, H, W)
StagedMaps(B, H, W) ==
    <<Sh(<<B, 64, CeilDiv(H, 4), CeilDiv(W, 4)>>),
      Sh(<<B, 128, CeilDiv(H, 8), CeilDiv(W, 8)>>),
      Sh(<<B, 320, CeilDiv(H, 16), CeilDiv(W, 16)>>),
      Sh(<<B, 512, CeilDiv(H, 32), CeilDiv(W, 32)>>)>>

MaxWeights == 2

\* number of distinct model objects tried
MaxObjects == 2

SuccessMessage == "Successfully loaded the training model"

FailureMessage == "Failed to load the training model"

\* torch.hub.load_state_dict_from_url: the exception it raises, "none" when
\* it returns
hub_load_exc(file) == IF file = NoFile THEN "URLError" ELSE "none"

\* load_model_dict: the exception it raises, "none" when it returns
load_model_dict_exc(path) ==
    IF path.http THEN hub_load_exc(path.file) ELSE torch_load_exc(path.file)

\* model.load_state_dict(state_dict), strict: the exception it raises
load_state_dict_exc(state_dict) ==
    IF state_dict < 0 THEN "RuntimeError" ELSE "none"

\* the mutant of except_catches: only a missing file is handled
except_catches_file_errors_only(e) == e = "FileNotFoundError"

\* "except Exception as e": every exception the try body can raise is one
except_catches(e) == TRUE

\* where a statement of the try body that raised e hands control
raise_to(e) == IF except_catches(e) THEN "except" ELSE "raised"

LoadInit ==
    /\ lpc = "load_model_dict"
    /\ lp_path \in [http : BOOLEAN,
                    file : {NoFile} \cup {File(sd) : sd \in -1..MaxWeights}]
    /\ lp_model \in [id : 1..MaxObjects, weights : 0..MaxWeights]
    /\ lp_state_dict = << >>
    /\ lp_e = "none"
    /\ lp_printed = << >>
    /\ lp_ret = << >>
    /\ DrvNotStarted
    /\ TokDone
    /\ AttnIdle
    /\ ShapeIdle
    /\ TrainIdle
    /\ ResumeIdle
    /\ ProcsIdle
    /\ GroupsIdle
    /\ WeightsIdle
    /\ BuildIdle
    /\ LoggerIdle

\* utils.py:56 and 20-25
LoadModelDict ==
    /\ lpc = "load_model_dict"
    /\ IF load_model_dict_exc(lp_path) # "none"
       THEN /\ lp_e' = load_model_dict_exc(lp_path)
            /\ lpc' = raise_to(load_model_dict_exc(lp_path))
            /\ UNCHANGED lp_state_dict
       ELSE /\ lp_state_dict' = lp_path.file
            /\ lpc' = "load_state_dict"
            /\ UNCHANGED lp_e
    /\ UNCHANGED <<lp_path, lp_model, lp_printed, lp_ret>>
    /\ UNCHANGED load_others

\* utils.py:57: on a misfit load_state_dict raises after it has copied the
\* entries that do fit, so the weights are what they were or partly replaced
LoadStateDict ==
    /\ lpc = "load_state_dict"
    /\ IF load_state_dict_exc(lp_state_dict[1]) # "none"
       THEN /\ lp_e' = load_state_dict_exc(lp_state_dict[1])
            /\ lpc' = raise_to(load_state_dict_exc(lp_state_dict[1]))
            /\ \E w \in 0..MaxWeights : lp_model' = [lp_model EXCEPT !.weights = w]
       ELSE /\ lp_model' = [lp_model EXCEPT !.weights = lp_state_dict[1]]
            /\ lpc' = "print_success"
            /\ UNCHANGED lp_e
    /\ UNCHANGED <<lp_path, lp_state_dict, lp_printed, lp_ret>>
    /\ UNCHANGED load_others

\* utils.py:58-59
ReturnLoaded ==
    /\ lpc = "print_success"
    /\ lp_printed' = Append(lp_printed, SuccessMessage)
    /\ lp_ret' = <<lp_model.id>>
    /\ lpc' = "returned"
    /\ UNCHANGED <<lp_path, lp_model, lp_state_dict, lp_e>>
    /\ UNCHANGED load_others

\* utils.py:60-63
ReturnGiven ==
    /\ lpc = "except"
    /\ lp_printed' = lp_printed \o <<lp_e, FailureMessage>>
    /\ lp_ret' = <<lp_model.id>>
    /\ lpc' = "returned"
    /\ UNCHANGED <<lp_path, lp_model, lp_state_dict, lp_e>>
    /\ UNCHANGED load_others

LoadNext ==
    \/ LoadModelDict
    \/ LoadStateDict
    \/ ReturnLoaded
    \/ ReturnGiven

SpecLoad == LoadInit /\ [][LoadNext]_vars

\* the path leads to a state dict that fits the model
Loadable(path) == path.file # NoFile /\ path.file[1] >= 0

\* C12: load_pretrain_model never raises to its caller; on success it
\* returns the model with the loaded weights and prints the success message;
\* on any failure it prints the exception and the failure message and returns
\* the model object it was given
C12_LoadPretrainModelNeverRaises ==
    /\ lpc # "raised"
    /\ lpc = "returned" =>
          /\ lp_ret = <<lp_model.id>>
          /\ Loadable(lp_path) =>
                /\ lp_model.weights = lp_path.file[1]
                /\ lp_printed = <<SuccessMessage>>
          /\ ~Loadable(lp_path) =>
                /\ Len(lp_printed) = 2
                /\ lp_printed[1] \in {"FileNotFoundError", "URLError", "RuntimeError"}
                /\ lp_printed[2] = FailureMessage

\* a state dict that does not fit the model: load_state_dict raised, the
\* exception and the failure message were printed, the given object returned
C12_Witness ==
    /\ lpc = "returned"
    /\ lp_path.file = File(-1)
    /\ lp_printed = <<"RuntimeError", FailureMessage>>
    /\ lp_ret = <<lp_model.id>>

(***************************************************************************)
(* Pamain.py: train_one_epoch, statement by statement (SpecTrain).  The    *)
(* driver calls it once per epoch and hands each call the step the call    *)
(* before returned (Pamain.py:149-151).                                    *)
(***************************************************************************)
\* the mutant of batch_next: the gradients are cleared before the optimizer
\* has used them
batch_next_zero_grad_before_step(p) ==
    CASE p = "forward"        -> "loss"
      [] p = "loss"           -> "backward"
      [] p = "backward"       -> "zero_grad"
      [] p = "zero_grad"      -> "optimizer_step"
      [] p = "optimizer_step" -> "log"
      [] p = "log"            -> "print"
      [] p = "print"          -> "scheduler_step"

\* the statement order of the loop body (Pamain.py:37, 39-43, 46, 49, 50,
\* 55-62, 63-64): the position that follows position p.  The body ends with
\* the break of line 65, which leaves the loop for line 67
batch_next(p) ==
    CASE p = "forward"        -> "loss"
      [] p = "loss"           -> "backward"
      [] p = "backward"       -> "optimizer_step"
      [] p = "optimizer_step" -> "zero_grad"
      [] p = "zero_grad"      -> "log"
      [] p = "log"            -> "print"
      [] p = "print"          -> "scheduler_step"

TrainInit ==
    /\ epc = "model_train"
    /\ te_args \in [train_len : 0..MaxBatches, val_training : BOOLEAN,
                    num_epochs : 1..MaxEpochs]
    /\ te_epoch = 0
    /\ te_step0 \in 0..1
    /\ te_step = te_step0
    /\ te_batch = 0
    /\ te_grad = 0
    /\ te_weights = 0
    /\ te_sched = << >>
    /\ te_events = << >>
    /\ DrvNotStarted
    /\ TokDone
    /\ AttnIdle
    /\ ShapeIdle
    /\ LoadIdle
    /\ ResumeIdle
    /\ ProcsIdle
    /\ GroupsIdle
    /\ WeightsIdle
    /\ BuildIdle
    /\ LoggerIdle

\* Pamain.py:34
ModelTrain ==
    /\ epc = "model_train"
    /\ epc' = "for"
    /\ te_events' = Append(te_events, "model.train")
    /\ UNCHANGED <<te_args, te_epoch, te_step0, te_step, te_batch, te_grad,
                   te_weights, te_sched>>
    /\ UNCHANGED train_others

\* Pamain.py:35: enumerate(train_loader) yields the next batch or ends
For ==
    /\ epc = "for"
    /\ IF te_batch < te_args.train_len
       THEN /\ te_batch' = te_batch + 1
            /\ epc' = "forward"
       ELSE /\ epc' = "scheduler_step"
            /\ UNCHANGED te_batch
    /\ UNCHANGED <<te_args, te_epoch, te_step0, te_step, te_grad, te_weights,
                   te_sched, te_events>>
    /\ UNCHANGED train_others

\* Pamain.py:37
Forward ==
    /\ epc = "forward"
    /\ epc' = batch_next("forward")
    /\ te_events' = Append(te_events, "forward")
    /\ UNCHANGED <<te_args, te_epoch, te_step0, te_step, te_batch, te_grad,
                   te_weights, te_sched>>
    /\ UNCHANGED train_others

\* Pamain.py:39-43
Loss ==
    /\ epc = "loss"
    /\ epc' = batch_next("loss")
    /\ te_events' = Append(te_events, "loss")
    /\ UNCHANGED <<te_args, te_epoch, te_step0, te_step, te_batch, te_grad,
                   te_weights, te_sched>>
    /\ UNCHANGED train_others

\* Pamain.py:46: the gradients of the loss are added to the stored ones
Backward ==
    /\ epc = "backward"
    /\ epc' = batch_next("backward")
    /\ te_grad' = te_grad + 1
    /\ te_events' = Append(te_events, "backward")
    /\ UNCHANGED <<te_args, te_epoch, te_step0, te_step, te_batch, te_weights,
                   te_sched>>
    /\ UNCHANGED train_others

\* Pamain.py:49
OptimizerStep ==
    /\ epc = "optimizer_step"
    /\ epc' = batch_next("optimizer_step")
    /\ te_weights' = te_weights + 1
    /\ te_events' = Append(te_events, "optimizer.step")
    /\ UNCHANGED <<te_args, te_epoch, te_step0, te_step, te_batch, te_grad,
                   te_sched>>
    /\ UNCHANGED train_others

\* Pamain.py:50
ZeroGrad ==
    /\ epc = "zero_grad"
    /\ epc' = batch_next("zero_grad")
    /\ te_grad' = 0
    /\ te_events' = Append(te_events, "optimizer.zero_grad")
    /\ UNCHANGED <<te_args, te_epoch, te_step0, te_step, te_batch, te_weights,
                   te_sched>>
    /\ UNCHANGED train_others

\* Pamain.py:55-62: accelerator.log(..., step=step), then step += 1
Log ==
    /\ epc = "log"
    /\ epc' = batch_next("log")
    /\ te_step' = te_step + 1
    /\ te_events' = Append(te_events, "log")
    /\ UNCHANGED <<te_args, te_epoch, te_step0, te_batch, te_grad, te_weights,
                   te_sched>>
    /\ UNCHANGED train_others

\* Pamain.py:63-65: the progress line, then break
PrintBreak ==
    /\ epc = "print"
    /\ epc' = batch_next("print")
    /\ UNCHANGED <<te_args, te_epoch, te_step0, te_step, te_batch, te_grad,
                   te_weights, te_sched, te_events>>
    /\ UNCHANGED train_others

\* Pamain.py:67
SchedulerStep ==
    /\ epc = "scheduler_step"
    /\ epc' = "val_training"
    /\ te_sched' = Append(te_sched, te_epoch)
    /\ te_events' = Append(te_events, "scheduler.step")
    /\ UNCHANGED <<te_args, te_epoch, te_step0, te_step, te_batch, te_grad,
                   te_weights>>
    /\ UNCHANGED train_others

\* Pamain.py:70-74
ValTrainingReturn ==
    /\ epc = "val_training"
    /\ epc' = "returned"
    /\ te_events' = IF te_args.val_training
                    THEN te_events \o <<"PA_val", "log_metrics">>
                    ELSE te_events
    /\ UNCHANGED <<te_args, te_epoch, te_step0, te_step, te_batch, te_grad,
                   te_weights, te_sched>>
    /\ UNCHANGED train_others

\* Pamain.py:149-151: the call of the next epoch, given the returned step
NextEpochCall ==
    /\ epc = "returned"
    /\ te_epoch + 1 < te_args.num_epochs
    /\ epc' = "model_train"
    /\ te_epoch' = te_epoch + 1
    /\ te_step0' = te_step
    /\ te_batch' = 0
    /\ te_sched' = << >>
    /\ te_events' = << >>
    /\ UNCHANGED <<te_args, te_step, te_grad, te_weights>>
    /\ UNCHANGED train_others

TrainNext ==
    \/ ModelTrain
    \/ For
    \/ Forward
    \/ Loss
    \/ Backward
    \/ OptimizerStep
    \/ ZeroGrad
    \/ Log
    \/ PrintBreak
    \/ SchedulerStep
    \/ ValTrainingReturn
    \/ NextEpochCall

SpecTrain == TrainInit /\ [][TrainNext]_vars

\* how often event e occurs in the sequence s
Count(s, e) == Cardinality({i \in 1..Len(s) : s[i] = e})

\* C13: train_one_epoch performs one forward pass, one backward pass and
\* one optimizer step for every batch of train_loader, so the step it
\* returns is the step it was given plus len(train_loader)
C13_EveryBatchTrained ==
    epc = "returned" =>
        /\ Count(te_events, "forward") = te_args.train_len
        /\ Count(te_events, "backward") = te_args.train_len
        /\ Count(te_events, "optimizer.step") = te_args.train_len
        /\ te_step = te_step0 + te_args.train_len

(***************************************************************************)
(* Further claims on the driver, checked under Spec.                       *)
(***************************************************************************)
\* C14: when config.trainer.is_train is not true the driver skips the
\* training loop, runs exactly one validation pass over val_loader and
\* prints the resulting score and metrics, without raising before those
\* prints
C14_ValidationOnlyRun ==
    ~config.is_train =>
        /\ pc # "crashed"
        /\ pc \in {"report", "exit"} =>
              /\ trace = <<"val_one_epoch">>
              /\ best_score = score
              /\ best_metrics = metrics

(***************************************************************************)
(* Claims on train_one_epoch, checked under SpecTrain.                     *)
(***************************************************************************)
\* what the claim lets a processed batch do, in order
BatchEvents ==
    <<"forward", "loss", "backward", "optimizer.step", "optimizer.zero_grad", "log">>

RECURSIVE Batches(_)
Batches(n) == IF n = 0 THEN << >> ELSE BatchEvents \o Batches(n - 1)

\* what the claim lets a call that processes n batches do, in order
CallEvents(n, val_training) ==
    <<"model.train">> \o Batches(n) \o <<"scheduler.step">>
        \o (IF val_training THEN <<"PA_val", "log_metrics">> ELSE << >>)

\* C15: for every processed batch the order is forward, loss, backward,
\* optimizer.step, optimizer.zero_grad, log, so the gradients are zero at
\* the start of every forward pass after the first; scheduler.step(epoch)
\* is called exactly once per call, after the batch loop, also when
\* train_loader is empty
C15_StepOrdering ==
    /\ \E n \in 0..te_args.train_len :
          IsPrefix(te_events, CallEvents(n, te_args.val_training))
    /\ epc = "forward" => te_grad = 0
    /\ epc = "returned" =>
          /\ te_sched = <<te_epoch>>
          /\ Count(te_events, "scheduler.step") = 1

\* the call of the second epoch has trained a batch, with gradients the
\* first epoch left at zero, and stepped the scheduler once
C15_Witness ==
    /\ epc = "returned"
    /\ te_epoch = 1
    /\ Count(te_events, "forward") = 1
    /\ te_weights = 2
    /\ te_grad = 0
    /\ te_sched = <<1>>

\* a call on an empty train_loader still steps the scheduler
C15_EmptyLoaderReached ==
    /\ epc = "returned"
    /\ te_args.train_len = 0
    /\ te_events = <<"model.train", "scheduler.step">>

\* the positions of the driver inside the training loop
LoopPcs == {"train", "val", "best", "ckpt", "next"}

Run ==
    \/ ResumeTrain
    \/ ResumeTest
    \/ Prepare
    \/ TrainOneEpoch
    \/ ValOneEpoch
    \/ SaveBest
    \/ Checkout
    \/ LoopNext
    \/ ValOnly
    \/ Report

\* a process that is not killed keeps executing its statements
SpecFair == Spec /\ WF_vars(Run)

\* the sequence <<a, a + 1, ..., b - 1>>
Range2(a, b) == [i \in 1..Max(b - a, 0) |-> a + i - 1]

\* C17: the training loop terminates after running each epoch index from
\* start_num_epochs to num_epochs - 1 exactly once, in increasing order;
\* when the resumed starting epoch is not below num_epochs no epoch runs, no
\* best or checkpoint file is written and the final report prints the
\* resumed best score and metrics
C17_LoopTerminates ==
    /\ [](config.is_train =>
             /\ IsPrefix(epochs_run, Range2(start_num_epochs, config.num_epochs))
             /\ pc \in {"report", "exit"} =>
                   epochs_run = Range2(start_num_epochs, config.num_epochs)
             /\ (pc \in {"report", "exit"} /\ start_num_epochs >= config.num_epochs) =>
                   /\ epochs_run = << >>
                   /\ best_score = ckpt.meta[1].best_score
                   /\ best_metrics = ckpt.meta[1].best_metrics)
    /\ [][(config.is_train /\ start_num_epochs >= config.num_epochs
              /\ pc \in {"resume_test", "prepare", "report"}) =>
             (ckpt' = ckpt /\ best' = best)]_vars
    /\ (pc = "prepare" /\ config.is_train) ~> (pc \in {"report", "crashed"})

\* a run that resumed after the last epoch: it reports without running any
C17_Witness ==
    /\ pc = "exit"
    /\ config.is_train
    /\ runs = 2
    /\ written # NoFile
    /\ start_num_epochs = config.num_epochs
    /\ config.num_epochs = 2
    /\ epochs_run = << >>

\* a run that went through two epochs and left the loop
C17_TwoEpochsReached ==
    /\ pc = "exit"
    /\ epochs_run = <<0, 1>>

(***************************************************************************)
(* src/utils.py: resume_train_state, statement by statement, for           *)
(* optimizers and schedulers given as one object, as a list or as a dict   *)
(* (SpecResume).                                                           *)
(***************************************************************************)
\* largest number of optimizers (and schedulers) in a list or dict
MaxParams == 2

\* the containers tried: one object, or a list or dict of 1..MaxParams
\* objects, each with state 0
Containers ==
    {[kind |-> "object", items |-> <<0>>]}
        \cup {[kind |-> k, items |-> [i \in 1..n |-> 0]] :
                 k \in {"list", "dict"}, n \in 1..MaxParams}

\* the files <type>.bin, <type>_1.bin, ... of a directory, for n objects
ParamFiles(n) == [1..n -> {NoFile, File(3)}]

\* load_param from its i-th key on: the states loaded so far and the
\* exception, if any, that ended the loop
RECURSIVE load_param_from(_, _, _)
load_param_from(files, items, i) ==
    IF i > Len(items) THEN [exc |-> "none", items |-> items]
    ELSE IF i > Len(files) \/ torch_load_exc(files[i]) # "none"
    THEN [exc |-> "FileNotFoundError", items |-> items]
    ELSE load_param_from(files, [items EXCEPT ![i] = files[i][1]], i + 1)

\* load_param(base_path, param_dict, accelerator, type): it iterates
\* param_dict.keys(), which only a dict has
load_param(files, param_dict) ==
    IF param_dict.kind # "dict"
    THEN [exc |-> "AttributeError", items |-> param_dict.items]
    ELSE load_param_from(files, param_dict.items, 1)

\* optimizers.load_state_dict(torch.load(base_path + "/optimizer.bin")): the
\* method is looked up on the argument before the file is read
load_single(files, param) ==
    IF param.kind # "object"
    THEN [exc |-> "AttributeError", items |-> param.items]
    ELSE IF torch_load_exc(files[1]) # "none"
    THEN [exc |-> torch_load_exc(files[1]), items |-> param.items]
    ELSE [exc |-> "none", items |-> <<files[1][1]>>]

ResumeInit ==
    /\ rpc = "load_meta"
    /\ \E o \in Containers :
          /\ rs_optimizers = o
          /\ rs_schedulers = o
          /\ rs_dir \in [meta : {NoFile, File(MetaRecord(1, 1, <<1, 0>>, 2, 2))},
                         model : {NoFile, File(1)},
                         optimizer : ParamFiles(Len(o.items)),
                         scheduler : ParamFiles(Len(o.items))]
    /\ rs_model = 0
    /\ rs_locals = << >>
    /\ rs_e = "none"
    /\ rs_ret = << >>
    /\ DrvNotStarted
    /\ TokDone
    /\ AttnIdle
    /\ ShapeIdle
    /\ LoadIdle
    /\ TrainIdle
    /\ ProcsIdle
    /\ GroupsIdle
    /\ WeightsIdle
    /\ BuildIdle
    /\ LoggerIdle

\* utils.py:30-36
RsLoadMeta ==
    /\ rpc = "load_meta"
    /\ IF torch_load_exc(rs_dir.meta) # "none"
       THEN /\ rs_e' = torch_load_exc(rs_dir.meta)
            /\ rpc' = "except"
            /\ UNCHANGED rs_locals
       ELSE /\ rs_locals' = [best_score |-> rs_dir.meta[1].best_score,
                             best_metrics |-> rs_dir.meta[1].best_metrics,
                             starting_epoch |-> rs_dir.meta[1].epoch + 1,
                             train_step |-> rs_dir.meta[1].train_step,
                             val_step |-> rs_dir.meta[1].val_step]
            /\ rpc' = "load_model"
            /\ UNCHANGED rs_e
    /\ UNCHANGED <<rs_dir, rs_model, rs_optimizers, rs_schedulers, rs_ret>>
    /\ UNCHANGED res_others

\* utils.py:37-38
RsLoadModel ==
    /\ rpc = "load_model"
    /\ rs_model' = load_pretrain_model(rs_dir.model, rs_model)
    /\ rpc' = IF rs_optimizers.kind = "list" THEN "load_param" ELSE "load_state_dict"
    /\ UNCHANGED <<rs_dir, rs_optimizers, rs_schedulers, rs_locals, rs_e, rs_ret>>
    /\ UNCHANGED res_others

\* utils.py:39-40: the isinstance(optimizers, list) branch
RsLoadParam ==
    /\ rpc = "load_param"
    /\ LET o == load_param(rs_dir.optimizer, rs_optimizers)
           s == load_param(rs_dir.scheduler, rs_schedulers)
       IN  IF o.exc # "none"
           THEN /\ rs_e' = o.exc
                /\ rpc' = "except"
                /\ rs_optimizers' = [rs_optimizers EXCEPT !.items = o.items]
                /\ UNCHANGED rs_schedulers
           ELSE /\ rs_optimizers' = [rs_optimizers EXCEPT !.items = o.items]
                /\ rs_schedulers' = [rs_schedulers EXCEPT !.items = s.items]
                /\ rs_e' = s.exc
                /\ rpc' = IF s.exc # "none" THEN "except" ELSE "return"
    /\ UNCHANGED <<rs_dir, rs_model, rs_locals, rs_ret>>
    /\ UNCHANGED res_others

\* utils.py:41-43: the else branch
RsLoadStateDict ==
    /\ rpc = "load_state_dict"
    /\ LET o == load_single(rs_dir.optimizer, rs_optimizers)
           s == load_single(rs_dir.scheduler, rs_schedulers)
       IN  IF o.exc # "none"
           THEN /\ rs_e' = o.exc
                /\ rpc' = "except"
                /\ UNCHANGED <<rs_optimizers, rs_schedulers>>
           ELSE /\ rs_optimizers' = [rs_optimizers EXCEPT !.items = o.items]
                /\ rs_schedulers' = [rs_schedulers EXCEPT !.items = s.items]
                /\ rs_e' = s.exc
                /\ rpc' = IF s.exc # "none" THEN "except" ELSE "return"
    /\ UNCHANGED <<rs_dir, rs_model, rs_locals, rs_ret>>
    /\ UNCHANGED res_others

\* utils.py:45-47
RsReturn ==
    /\ rpc = "return"
    /\ rs_ret' = [model |-> rs_model, optimizers |-> rs_optimizers,
                  schedulers |-> rs_schedulers,
                  starting_epoch |-> rs_locals.starting_epoch,
                  train_step |-> rs_locals.train_step,
                  val_step |-> rs_locals.val_step,
                  best_score |-> rs_locals.best_score,
                  best_metrics |-> rs_locals.best_metrics]
    /\ rpc' = "returned"
    /\ UNCHANGED <<rs_dir, rs_model, rs_optimizers, rs_schedulers, rs_locals, rs_e>>
    /\ UNCHANGED res_others

\* utils.py:48-51
RsExcept ==
    /\ rpc = "except"
    /\ rs_ret' = [model |-> rs_model, optimizers |-> rs_optimizers,
                  schedulers |-> rs_schedulers, starting_epoch |-> 0,
                  train_step |-> 0, val_step |-> 0, best_score |-> 0,
                  best_metrics |-> EmptyMetrics]
    /\ rpc' = "returned"
    /\ UNCHANGED <<rs_dir, rs_model, rs_optimizers, rs_schedulers, rs_locals, rs_e>>
    /\ UNCHANGED res_others

ResumeNext ==
    \/ RsLoadMeta
    \/ RsLoadModel
    \/ RsLoadParam
    \/ RsLoadStateDict
    \/ RsReturn
    \/ RsExcept

SpecResume == ResumeInit /\ [][ResumeNext]_vars

\* every file of the checkpoint directory is present and readable
AllFilesReadable(dir) ==
    /\ dir.meta # NoFile
    /\ dir.model # NoFile
    /\ \A i \in 1..Len(dir.optimizer) : dir.optimizer[i] # NoFile
    /\ \A i \in 1..Len(dir.scheduler) : dir.scheduler[i] # NoFile

\* C18: given its optimizers and schedulers as lists, with every checkpoint
\* file present and readable, resume_train_state restores the state of
\* every optimizer and every scheduler of the lists from its own file and
\* returns the saved epoch + 1 as the starting epoch
C18_ListsAreRestored ==
    (rpc = "returned" /\ rs_optimizers.kind = "list" /\ AllFilesReadable(rs_dir)) =>
        /\ rs_ret.starting_epoch = rs_dir.meta[1].epoch + 1
        /\ \A i \in 1..Len(rs_dir.optimizer) :
              rs_ret.optimizers.items[i] = rs_dir.optimizer[i][1]
        /\ \A i \in 1..Len(rs_dir.scheduler) :
              rs_ret.schedulers.items[i] = rs_dir.scheduler[i][1]

\* C19: if resume_train_state reports success, returning the saved epoch + 1
\* with the saved step counters and best score, then the returned model
\* holds the weights stored in the checkpoint directory; a resume never
\* continues from a later epoch with a model whose checkpoint weights failed
\* to load
C19_SuccessMeansWeightsLoaded ==
    (rpc = "returned" /\ rs_ret.starting_epoch > 0) =>
        /\ rs_ret.starting_epoch = rs_dir.meta[1].epoch + 1
        /\ rs_ret.train_step = rs_dir.meta[1].train_step
        /\ rs_ret.val_step = rs_dir.meta[1].val_step
        /\ rs_ret.best_score = rs_dir.meta[1].best_score
        /\ rs_dir.model # NoFile
        /\ rs_ret.model = rs_dir.model[1]

\* the process resumes from the checkpoint directory: resume is switched on
\* and a restarted process has read its state back from it
ResumesFromCheckpoint ==
    config.resume_train /\ (runs > 1 => start_num_epochs > 0)

\* C20: across epochs, process crashes between two file writes of an epoch
\* and resumes from the checkpoint directory, the best score recorded in the
\* best directory's metadata is never replaced by a lower one, and it is
\* always at least the best_score recorded in the checkpoint directory's
\* metadata
C20_BestDirNeverLowered ==
    /\ [][(ResumesFromCheckpoint /\ best.meta # NoFile /\ best'.meta # NoFile) =>
             best'.meta[1].best_score >= best.meta[1].best_score]_vars
    /\ []((ResumesFromCheckpoint /\ best.meta # NoFile /\ ckpt.meta # NoFile) =>
             best.meta[1].best_score >= ckpt.meta[1].best_score)

(***************************************************************************)
(* src/Pamain.py run as several processes by the distributed launcher:     *)
(* every process executes __main__ from its first line.  A torch.save of   *)
(* a path lasts from the opening of the file to its closing.               *)
(***************************************************************************)

\* number of processes of the launch
NumProcesses == 2

\* epochs of the multi-process run (config.trainer.num_epochs)
MpEpochs == 2

Processes == 0 .. (NumProcesses - 1)

\* accelerator.is_local_main_process: the process of local index 0
is_local_main_process(p) == p = 0

BestMetaPath == "best/epoch.pth.tar"

CheckpointMetaPath == "checkpoint/epoch.pth.tar"

ProcsInit ==
    /\ mpc = [p \in Processes |-> "logger"]
    /\ mp_epoch = [p \in Processes |-> 0]
    /\ mp_best_score = [p \in Processes |-> 0]
    /\ mp_score = [p \in Processes |-> 0]
    /\ mp_open = {}
    /\ mp_writes = {}
    /\ mp_logdirs = {}
    /\ DrvNotStarted
    /\ TokDone
    /\ AttnIdle
    /\ ShapeIdle
    /\ LoadIdle
    /\ TrainIdle
    /\ ResumeIdle
    /\ GroupsIdle
    /\ WeightsIdle
    /\ BuildIdle
    /\ LoggerIdle

\* Logger(logging_dir if accelerator.is_local_main_process else None), then the
\* set-up down to the loop entry with start_num_epochs = 0
MpLogger(p) ==
    /\ mpc[p] = "logger"
    /\ mp_logdirs' = IF is_local_main_process(p) THEN mp_logdirs \cup {p} ELSE mp_logdirs
    /\ mpc' = [mpc EXCEPT ![p] = IF 0 < MpEpochs THEN "train" ELSE "report"]
    /\ UNCHANGED <<mp_epoch, mp_best_score, mp_score, mp_open, mp_writes>>
    /\ UNCHANGED mp_others

\* train_one_epoch and val_one_epoch of the process, on its shard of the loaders
MpTrainVal(p) ==
    /\ mpc[p] = "train"
    /\ \E s \in 0 .. MaxScore :
          /\ mp_score' = [mp_score EXCEPT ![p] = s]
          /\ mpc' = [mpc EXCEPT ![p] = IF mp_best_score[p] < s THEN "save_best"
                                       ELSE "checkout"]
    /\ UNCHANGED <<mp_epoch, mp_best_score, mp_open, mp_writes, mp_logdirs>>
    /\ UNCHANGED mp_others

\* best_score = score, the two model saves, and torch.save opens best/epoch.pth.tar
MpSaveBestOpen(p) ==
    /\ mpc[p] = "save_best"
    /\ mp_best_score' = [mp_best_score EXCEPT ![p] = mp_score[p]]
    /\ mp_open' = mp_open \cup {<<p, BestMetaPath>>}
    /\ mp_writes' = mp_writes \cup {<<BestMetaPath, mp_epoch[p], p>>}
    /\ mpc' = [mpc EXCEPT ![p] = "save_best_close"]
    /\ UNCHANGED <<mp_epoch, mp_score, mp_logdirs>>
    /\ UNCHANGED mp_others

\* torch.save of best/epoch.pth.tar returns
MpSaveBestClose(p) ==
    /\ mpc[p] = "save_best_close"
    /\ mp_open' = mp_open \ {<<p, BestMetaPath>>}
    /\ mpc' = [mpc EXCEPT ![p] = "checkout"]
    /\ UNCHANGED <<mp_epoch, mp_best_score, mp_score, mp_writes, mp_logdirs>>
    /\ UNCHANGED mp_others

\* accelerator.save_state of the checkpoint, and torch.save opens
\* checkpoint/epoch.pth.tar
MpCheckoutOpen(p) ==
    /\ mpc[p] = "checkout"
    /\ mp_open' = mp_open \cup {<<p, CheckpointMetaPath>>}
    /\ mp_writes' = mp_writes \cup {<<CheckpointMetaPath, mp_epoch[p], p>>}
    /\ mpc' = [mpc EXCEPT ![p] = "checkout_close"]
    /\ UNCHANGED <<mp_epoch, mp_best_score, mp_score, mp_logdirs>>
    /\ UNCHANGED mp_others

\* torch.save of checkpoint/epoch.pth.tar returns; "for epoch in range" advances
MpCheckoutClose(p) ==
    /\ mpc[p] = "checkout_close"
    /\ mp_open' = mp_open \ {<<p, CheckpointMetaPath>>}
    /\ IF mp_epoch[p] + 1 < MpEpochs
         THEN /\ mp_epoch' = [mp_epoch EXCEPT ![p] = mp_epoch[p] + 1]
              /\ mpc' = [mpc EXCEPT ![p] = "train"]
         ELSE /\ mp_epoch' = mp_epoch
              /\ mpc' = [mpc EXCEPT ![p] = "report"]
    /\ UNCHANGED <<mp_best_score, mp_score, mp_writes, mp_logdirs>>
    /\ UNCHANGED mp_others

ProcsNext ==
    \E p \in Processes :
       \/ MpLogger(p)
       \/ MpTrainVal(p)
       \/ MpSaveBestOpen(p)
       \/ MpSaveBestClose(p)
       \/ MpCheckoutOpen(p)
       \/ MpCheckoutClose(p)

SpecProcs == ProcsInit /\ [][ProcsNext]_vars

\* C21: each metadata path is written by at most one process per epoch, no two
\* processes have a write of the same metadata path under way at the same time,
\* and only the local main process creates the log directory and the log file.
C21_SingleWriterPerPath ==
    /\ \A w1 \in mp_writes : \A w2 \in mp_writes :
          (w1[1] = w2[1] /\ w1[2] = w2[2]) => w1[3] = w2[3]
    /\ \A o1 \in mp_open : \A o2 \in mp_open : o1[2] = o2[2] => o1[1] = o2[1]
    /\ \A p \in mp_logdirs : is_local_main_process(p)

\* the input tuples of the batch size of x whose sample b is the sample b of x
SameSample(x, b) ==
    {y \in InputTuples(Len(x.verb)) :
        /\ y.instrument[b] = x.instrument[b]
        /\ y.target[b] = x.target[b]
        /\ y.verb[b] = x.verb[b]}

\* C22: for a batch of any size, row b of the triplet logits returned by
\* AttentionClassifier.forward is a function of row b of the instrument, target
\* and verb logits alone: every batch with the same sample b gives the same row b.
C22_PerSampleIndependence ==
    apc = "done" =>
        \A b \in 1..Len(inputs.verb) :
            \A y \in SameSample(inputs, b) :
                attention_forward(params, y)[b] = out[b]

(***************************************************************************)
(* src/utils.py: get_params_groups.  A name is the tuple of its            *)
(* dot-separated components; a parameter is [name, ndim, requires_grad],   *)
(* ndim the length of its shape.                                           *)
(***************************************************************************)

\* number of parameters of the model given
MaxNamed == 3

ParamNames == {<<"bias">>, <<"fc", "bias">>, <<"fc", "weight">>}

NamedParams == [name : ParamNames, ndim : {0, 1, 2}, requires_grad : BOOLEAN]

\* the lists of at most n parameters with pairwise different names
RECURSIVE NamedParameterLists(_)
NamedParameterLists(n) ==
    IF n = 0 THEN {<< >>}
    ELSE LET shorter == NamedParameterLists(n - 1)
         IN  shorter \cup
             {Append(l, q) : l \in {m \in shorter : Len(m) = n - 1},
                             q \in NamedParams}

DistinctNames(l) == \A i, j \in 1..Len(l) : l[i].name = l[j].name => i = j

\* name.endswith("bias"), without the dot
endswith_bias_no_dot(name) == name[Len(name)] = "bias"

\* name.endswith(".bias")
endswith_bias(name) == Len(name) >= 2 /\ name[Len(name)] = "bias"

GroupsInit ==
    /\ gpc = "for"
    /\ gp_model \in {l \in NamedParameterLists(MaxNamed) : DistinctNames(l)}
    /\ gp_named = gp_model
    /\ regularized = << >>
    /\ not_regularized = << >>
    /\ gp_ret = << >>
    /\ DrvNotStarted
    /\ TokDone
    /\ AttnIdle
    /\ ShapeIdle
    /\ LoadIdle
    /\ TrainIdle
    /\ ResumeIdle
    /\ ProcsIdle
    /\ WeightsIdle
    /\ BuildIdle
    /\ LoggerIdle

\* utils.py:146-148: a parameter without requires_grad is passed over
GpContinue ==
    /\ gpc = "for"
    /\ gp_named # << >>
    /\ ~ Head(gp_named).requires_grad
    /\ gp_named' = Tail(gp_named)
    /\ UNCHANGED <<gpc, gp_model, regularized, not_regularized, gp_ret>>
    /\ UNCHANGED gp_others

\* utils.py:149-151: biases and one-dimensional parameters
GpNotRegularized ==
    /\ gpc = "for"
    /\ gp_named # << >>
    /\ Head(gp_named).requires_grad
    /\ endswith_bias(Head(gp_named).name) \/ Head(gp_named).ndim = 1
    /\ not_regularized' = Append(not_regularized, Head(gp_named))
    /\ gp_named' = Tail(gp_named)
    /\ UNCHANGED <<gpc, gp_model, regularized, gp_ret>>
    /\ UNCHANGED gp_others

\* utils.py:152-153: every other parameter
GpRegularized ==
    /\ gpc = "for"
    /\ gp_named # << >>
    /\ Head(gp_named).requires_grad
    /\ ~ (endswith_bias(Head(gp_named).name) \/ Head(gp_named).ndim = 1)
    /\ regularized' = Append(regularized, Head(gp_named))
    /\ gp_named' = Tail(gp_named)
    /\ UNCHANGED <<gpc, gp_model, not_regularized, gp_ret>>
    /\ UNCHANGED gp_others

\* utils.py:154
GpReturn ==
    /\ gpc = "for"
    /\ gp_named = << >>
    /\ gp_ret' = <<[params |-> regularized, weight_decay |-> "default"],
                   [params |-> not_regularized, weight_decay |-> 0]>>
    /\ gpc' = "done"
    /\ UNCHANGED <<gp_named, gp_model, regularized, not_regularized>>
    /\ UNCHANGED gp_others

GroupsNext ==
    \/ GpContinue
    \/ GpNotRegularized
    \/ GpRegularized
    \/ GpReturn

SpecGroups == GroupsInit /\ [][GroupsNext]_vars

\* the parameter is a bias (its name ends with ".bias") or is one-dimensional
BiasOrOneDim(q) ==
    \/ Len(q.name) >= 2 /\ q.name[Len(q.name)] = "bias"
    \/ q.ndim = 1

InFirst(q) == q.requires_grad /\ ~ BiasOrOneDim(q)

InSecond(q) == q.requires_grad /\ BiasOrOneDim(q)

\* C23: get_params_groups partitions the trainable parameters: the first group
\* is the trainable parameters that are neither a '.bias' nor one-dimensional,
\* the second (weight_decay 0) the trainable ones that are, each in the order of
\* named_parameters; a parameter without requires_grad is in neither, and no
\* parameter is in both.
C23_ParamGroupsPartition ==
    gpc = "done" =>
        /\ Len(gp_ret) = 2
        /\ gp_ret[1].params = SelectSeq(gp_model, InFirst)
        /\ gp_ret[2].params = SelectSeq(gp_model, InSecond)
        /\ gp_ret[2].weight_decay = 0
        /\ \A q \in NamedParams :
              LET n1 == Cardinality({i \in 1..Len(gp_ret[1].params) : gp_ret[1].params[i] = q})
                  n2 == Cardinality({i \in 1..Len(gp_ret[2].params) : gp_ret[2].params[i] = q})
                  n  == Cardinality({i \in 1..Len(gp_model) : gp_model[i] = q})
              IN  n1 + n2 = (IF q.requires_grad THEN n ELSE 0) /\ (n1 = 0 \/ n2 = 0)

\* a call returned with a top-level parameter named "bias" of two dimensions in
\* the first group, a ".bias" in the second and a frozen parameter in neither
C23_Witness ==
    /\ gpc = "done"
    /\ Len(gp_model) = 3
    /\ \E i \in 1..Len(gp_ret[1].params) :
          gp_ret[1].params[i].name = <<"bias">> /\ gp_ret[1].params[i].ndim = 2
    /\ \E i \in 1..Len(gp_ret[2].params) : gp_ret[2].params[i].name = <<"fc", "bias">>
    /\ \E i \in 1..Len(gp_model) : ~ gp_model[i].requires_grad

(***************************************************************************)
(* src/utils.py: get_weight_balancing.  A weight is the text of its        *)
(* literal in the source.                                                  *)
(***************************************************************************)

switcher ==
    ("cholect50" :>
        [tool |-> <<"0.08084519", "0.81435289", "0.10459284", "2.55976864", "1.630372490", "1.29528455">>,
         verb |-> <<"0.31956735", "0.07252306", "0.08111481", "0.81137309", "1.302895320", "2.12264151", "1.54109589", "8.86363636", "12.13692946", "0.40462028">>,
         target |-> <<"0.06246232", "1.00000000", "0.34266478", "0.84750219", "14.80102041", "8.73795181", "1.52845100", "5.74455446", "0.285756500", "12.72368421", "0.6250808", "3.85771277", "6.95683453", "0.84923888", "0.40130032">>])
    @@ ("cholect50-challenge" :>
        [tool |-> <<"0.08495163", "0.88782288", "0.11259564", "2.61948830", "1.784866470", "1.144624170">>,
         verb |-> <<"0.39862805", "0.06981640", "0.08332925", "0.81876204", "1.415868390", "2.269359150", "1.28428410", "7.35822511", "18.67857143", "0.45704490">>,
         target |-> <<"0.07333818", "0.87139287", "0.42853950", "1.00000000", "17.67281106", "13.94545455", "1.44880997", "6.04889590", "0.326188650", "16.82017544", "0.63577586", "6.79964539", "6.19547658", "0.96284208", "0.51559559">>])
    @@ ("cholect45-crossval" :>
           ((1 :> [tool |-> <<"0.08165644", "0.91226868", "0.10674758", "2.85418156", "1.60554885", "1.10640067">>,
             verb |-> <<"0.37870137", "0.06836869", "0.07931255", "0.84780024", "1.21880342", "2.52836879", "1.30765704", "6.88888889", "17.07784431", "0.45241117">>,
             target |-> <<"0.07149629", "1.0", "0.41013597", "0.90458015", "13.06299213", "12.06545455", "1.5213205", "5.04255319", "0.35808332", "45.45205479", "0.67493897", "7.04458599", "9.14049587", "0.97330595", "0.52633249">>])
        @@ (2 :> [tool |-> <<"0.0854156", "0.89535362", "0.10995253", "2.74936869", "1.78264429", "1.13234529">>,
             verb |-> <<"0.36346863", "0.06771776", "0.07893261", "0.82842725", "1.33892161", "2.13049748", "1.26120359", "5.72674419", "19.7", "0.43189126">>,
             target |-> <<"0.07530655", "0.97961957", "0.4325135", "0.99393438", "15.5387931", "14.5951417", "1.53862569", "6.01836394", "0.35184462", "15.81140351", "0.709506", "5.79581994", "8.08295964", "1.0", "0.52689272">>])
        @@ (3 :> [tool |-> <<"0.0915228", "0.89714969", "0.12057004", "2.72128174", "1.94092281", "1.12948557">>,
             verb |-> <<"0.43636862", "0.07558554", "0.0891017", "0.81820519", "1.53645582", "2.31924198", "1.28565657", "6.49387755", "18.28735632", "0.48676763">>,
             target |-> <<"0.06841828", "0.90980736", "0.38826607", "1.0", "14.3640553", "12.9875", "1.25939394", "5.38341969", "0.29060227", "13.67105263", "0.59168565", "6.58985201", "5.72977941", "0.86824513", "0.47682423">>])
        @@ (4 :> [tool |-> <<"0.08222218", "0.85414117", "0.10948695", "2.50868784", "1.63235867", "1.20593318">>,
             verb |-> <<"0.41154261", "0.0692142", "0.08427214", "0.79895288", "1.33625219", "2.2624166", "1.35343681", "7.63", "17.84795322", "0.43970609">>,
             target |-> <<"0.07536126", "0.85398445", "0.4085784", "0.95464422", "15.90497738", "18.5978836", "1.55875831", "5.52672956", "0.33700863", "15.41666667", "0.74755423", "5.4921875", "6.11304348", "1.0", "0.50641118">>])
        @@ (5 :> [tool |-> <<"0.0804654", "0.92271157", "0.10489631", "2.52302243", "1.60074906", "1.09141982">>,
             verb |-> <<"0.50710436", "0.06590258", "0.07981184", "0.81538866", "1.29267277", "2.20525568", "1.29699248", "7.32311321", "25.45081967", "0.46733895">>,
             target |-> <<"0.07119395", "0.87450495", "0.43043372", "0.86465981", "14.01984127", "23.7114094", "1.47577277", "5.81085526", "0.32129865", "22.79354839", "0.63304067", "6.92745098", "5.88833333", "1.0", "0.53175798">>])))
    @@ ("cholect50-crossval" :>
           ((1 :> [tool |-> <<"0.0828851", "0.8876", "0.10830995", "2.93907285", "1.63884786", "1.14499484">>,
             verb |-> <<"0.29628942", "0.07366916", "0.08267971", "0.83155428", "1.25402434", "2.38358209", "1.34938741", "7.56872038", "12.98373984", "0.41502079">>,
             target |-> <<"0.06551745", "1.0", "0.36345711", "0.82434783", "13.06299213", "8.61818182", "1.4017744", "4.62116992", "0.32822238", "45.45205479", "0.67343211", "4.13200498", "8.23325062", "0.88527215", "0.43113306">>])
        @@ (2 :> [tool |-> <<"0.08586283", "0.87716737", "0.11068887", "2.84210526", "1.81016949", "1.16283571">>,
             verb |-> <<"0.30072757", "0.07275414", "0.08350168", "0.80694143", "1.39209979", "2.22754491", "1.31448763", "6.38931298", "13.89211618", "0.39397505">>,
             target |-> <<"0.07056703", "1.0", "0.39451115", "0.91977006", "15.86206897", "9.68421053", "1.44483706", "5.44378698", "0.31858714", "16.14035088", "0.7238395", "4.20571429", "7.98264642", "0.91360477", "0.43304307">>])
        @@ (3 :> [tool |-> <<"0.09225068", "0.87856006", "0.12195811", "2.82669323", "1.97710987", "1.1603972">>,
             verb |-> <<"0.34285159", "0.08049804", "0.0928239", "0.80685714", "1.56125608", "2.23984772", "1.31471136", "7.08835341", "12.17241379", "0.43180428">>,
             target |-> <<"0.06919395", "1.0", "0.37532866", "0.9830703", "15.78801843", "8.99212598", "1.27597765", "5.36990596", "0.29177312", "15.02631579", "0.64935557", "5.08308605", "5.86643836", "0.86580743", "0.41908257">>])
        @@ (4 :> [tool |-> <<"0.08247885", "0.83095539", "0.11050268", "2.58193042", "1.64497676", "1.25538881">>,
             verb |-> <<"0.31890981", "0.07380354", "0.08804592", "0.79094077", "1.35928144", "2.17017208", "1.42947103", "8.34558824", "13.19767442", "0.40666428">>,
             target |-> <<"0.07777646", "0.95894072", "0.41993829", "0.95592153", "17.85972851", "12.49050633", "1.65701092", "5.74526929", "0.33763901", "17.31140351", "0.83747083", "3.95490982", "6.57833333", "1.0", "0.47139615">>])
        @@ (5 :> [tool |-> <<"0.07891691", "0.89878025", "0.10267677", "2.53805556", "1.60636428", "1.12691169">>,
             verb |-> <<"0.36420961", "0.06825313", "0.08060635", "0.80956984", "1.30757221", "2.09375", "1.33625848", "7.9009434", "14.1350211", "0.41429631">>,
             target |-> <<"0.07300329", "0.97128713", "0.42084942", "0.8829883", "15.57142857", "19.42574257", "1.56521739", "5.86547085", "0.32732733", "25.31612903", "0.70171674", "4.55220418", "6.13125", "1.0", "0.48528321">>])))

randa_tool_weight ==
    <<"0.93487068", "0.94234964", "0.93487068", "1.18448115", "1.02368339", "0.97974447">>

randa_verb_weight ==
    <<"0.60002400", "0.60002400", "0.60002400", "0.61682467", "0.67082683", "0.80163207", "0.70562823", "2.11208448", "2.69230769", "0.60062402">>

randa_target_weight ==
    <<"0.49752894", "0.52041527", "0.49752894", "0.51394739", "2.71899565", "1.75577963", "0.58509403", "1.25228034", "0.49752894", "2.42993134", "0.49802647", "0.87266576", "1.36074165", "0.50150917", "0.49802647">>

\* the dataset variants and folds the table has an entry for
DatasetVariants ==
    {"cholect50", "cholect50-challenge", "cholect45-crossval", "cholect50-crossval"}

Folds == DOMAIN switcher["cholect45-crossval"]

\* a dataset section of the configuration
DatasetConfigs == [dataset_variant : DatasetVariants, kfold : Folds, weight_randa : BOOLEAN]

\* 'crossval' in config.dataset_variant
has_crossval(variant) == variant \in {"cholect45-crossval", "cholect50-crossval"}

\* a test of weight_randa that never holds
weight_randa_never(c) == FALSE

\* config.weight_randa == True
weight_randa_true(c) == c.weight_randa = TRUE

WeightsInit ==
    /\ wpc = "choose"
    /\ wb_config \in [dataset : {"T45", "T50"}, T45 : DatasetConfigs, T50 : DatasetConfigs]
    /\ wb_case = << >>
    /\ tool_weight = << >> /\ verb_weight = << >> /\ target_weight = << >>
    /\ wb_ret = << >>
    /\ DrvNotStarted
    /\ TokDone
    /\ AttnIdle
    /\ ShapeIdle
    /\ LoadIdle
    /\ TrainIdle
    /\ ResumeIdle
    /\ ProcsIdle
    /\ GroupsIdle
    /\ BuildIdle
    /\ LoggerIdle

\* utils.py:160-169: config is rebound to the chosen dataset section
WbChoose ==
    /\ wpc = "choose"
    /\ wb_case' = IF wb_config.dataset = "T45" THEN wb_config.T45 ELSE wb_config.T50
    /\ wpc' = "lookup"
    /\ UNCHANGED <<wb_config, tool_weight, verb_weight, target_weight, wb_ret>>
    /\ UNCHANGED wb_others

\* utils.py:238-241: the entry of the fold
WbCrossval ==
    /\ wpc = "lookup"
    /\ has_crossval(wb_case.dataset_variant)
    /\ tool_weight' = switcher[wb_case.dataset_variant][wb_case.kfold].tool
    /\ verb_weight' = switcher[wb_case.dataset_variant][wb_case.kfold].verb
    /\ target_weight' = switcher[wb_case.dataset_variant][wb_case.kfold].target
    /\ wpc' = "randa"
    /\ UNCHANGED <<wb_config, wb_case, wb_ret>>
    /\ UNCHANGED wb_others

\* utils.py:242-245: the entry of the variant
WbPlain ==
    /\ wpc = "lookup"
    /\ ~ has_crossval(wb_case.dataset_variant)
    /\ tool_weight' = switcher[wb_case.dataset_variant].tool
    /\ verb_weight' = switcher[wb_case.dataset_variant].verb
    /\ target_weight' = switcher[wb_case.dataset_variant].target
    /\ wpc' = "randa"
    /\ UNCHANGED <<wb_config, wb_case, wb_ret>>
    /\ UNCHANGED wb_others

\* utils.py:246-249: the fixed lists replace the entry
WbRanda ==
    /\ wpc = "randa"
    /\ weight_randa_true(wb_case)
    /\ tool_weight' = randa_tool_weight
    /\ verb_weight' = randa_verb_weight
    /\ target_weight' = randa_target_weight
    /\ wpc' = "return"
    /\ UNCHANGED <<wb_config, wb_case, wb_ret>>
    /\ UNCHANGED wb_others

\* utils.py:246: the test fails
WbKeep ==
    /\ wpc = "randa"
    /\ ~ weight_randa_true(wb_case)
    /\ wpc' = "return"
    /\ UNCHANGED <<wb_config, wb_case, tool_weight, verb_weight, target_weight, wb_ret>>
    /\ UNCHANGED wb_others

\* utils.py:251
WbReturn ==
    /\ wpc = "return"
    /\ wb_ret' = <<tool_weight, verb_weight, target_weight>>
    /\ wpc' = "done"
    /\ UNCHANGED <<wb_config, wb_case, tool_weight, verb_weight, target_weight>>
    /\ UNCHANGED wb_others

WeightsNext ==
    \/ WbChoose
    \/ WbCrossval
    \/ WbPlain
    \/ WbRanda
    \/ WbKeep
    \/ WbReturn

SpecWeights == WeightsInit /\ [][WeightsNext]_vars

\* C24: for every supported variant and fold and both values of weight_randa the
\* returned tool, verb and target weight lists have the 6, 10 and 15 entries of
\* the model's instrument, verb and target heads, and with weight_randa true the
\* returned lists are the same three lists whatever the variant and the fold.
C24_WeightListLengths ==
    wpc = "done" =>
        /\ Len(wb_ret) = 3
        /\ Len(wb_ret[1]) = i_channels
        /\ Len(wb_ret[2]) = v_channels
        /\ Len(wb_ret[3]) = t_channels
        /\ wb_case.weight_randa =>
              wb_ret = <<randa_tool_weight, randa_verb_weight, randa_target_weight>>

\* a call for fold 5 of cholect50-crossval with weight_randa true returned
C24_Witness ==
    /\ wpc = "done"
    /\ wb_case.dataset_variant = "cholect50-crossval"
    /\ wb_case.kfold = 5
    /\ wb_case.weight_randa
    /\ Len(wb_ret[3]) = 15

(***************************************************************************)
(* src/models/EndoForm.py: the constructors.  EndoForm.__init__ builds the *)
(* backbone pvt_v2_b2, whose every Block builds an Attention, and last the *)
(* AttentionClassifier; each of the two asserts on construction.           *)
(***************************************************************************)

\* largest num_heads argument given to EndoForm
MaxHeads == 12

\* Attention.__init__: assert dim % num_heads == 0
Attention_init(dim, heads) ==
    IF dim % heads = 0 THEN "none" ELSE "dim should be divided by num_heads"

\* AttentionClassifier.__init__: head_dim = key_dim // num_heads and
\* assert self.head_dim * num_heads == key_dim
AttentionClassifier_init(kdim, heads) ==
    LET hdim == kdim \div heads
    IN  IF hdim * heads = kdim THEN "none" ELSE "key_dim must be divisible by num_heads"

\* the default arguments of EndoForm.__init__
DefaultArgs ==
    [dims |-> embed_dims, num_heads |-> endo_num_heads,
     t_channels |-> t_channels, v_channels |-> v_channels]

BuildInit ==
    /\ bpc = "backbone"
    /\ b_args \in [dims : {embed_dims, <<64, 128, 256, 512>>},
                   num_heads : 1..MaxHeads,
                   t_channels : {t_channels, t_channels + 1},
                   v_channels : {v_channels, v_channels + 1}]
    /\ b_stage = 1
    /\ b_blocks = 0
    /\ b_err = "none"
    /\ DrvNotStarted
    /\ TokDone
    /\ AttnIdle
    /\ ShapeIdle
    /\ LoadIdle
    /\ TrainIdle
    /\ ResumeIdle
    /\ ProcsIdle
    /\ GroupsIdle
    /\ WeightsIdle
    /\ LoggerIdle

\* EndoForm.py:236-260: one Block(dim=embed_dims[s], num_heads=num_heads[s], ...)
\* of the stage, whose Attention asserts
BuildBlock ==
    /\ bpc = "backbone"
    /\ b_blocks < pvt_depths[b_stage]
    /\ LET e == Attention_init(b_args.dims[b_stage], pvt_num_heads[b_stage])
       IN  IF e = "none"
             THEN /\ b_blocks' = b_blocks + 1
                  /\ UNCHANGED <<bpc, b_err>>
             ELSE /\ b_err' = e
                  /\ bpc' = "raised"
                  /\ UNCHANGED b_blocks
    /\ UNCHANGED <<b_args, b_stage>>
    /\ UNCHANGED b_others

\* the ModuleList of the stage is complete: the next stage, or the heads
BuildStage ==
    /\ bpc = "backbone"
    /\ b_blocks = pvt_depths[b_stage]
    /\ IF b_stage < Len(pvt_depths)
         THEN /\ b_stage' = b_stage + 1
              /\ b_blocks' = 0
              /\ UNCHANGED bpc
         ELSE /\ bpc' = "classifier"
              /\ UNCHANGED <<b_stage, b_blocks>>
    /\ UNCHANGED <<b_args, b_err>>
    /\ UNCHANGED b_others

\* EndoForm.py:739: AttentionClassifier(key_dim = t_channels * v_channels,
\* num_heads = num_heads, ...)
BuildClassifier ==
    /\ bpc = "classifier"
    /\ LET e == AttentionClassifier_init(b_args.t_channels * b_args.v_channels,
                                         b_args.num_heads)
       IN  /\ b_err' = e
           /\ bpc' = IF e = "none" THEN "done" ELSE "raised"
    /\ UNCHANGED <<b_args, b_stage, b_blocks>>
    /\ UNCHANGED b_others

BuildNext ==
    \/ BuildBlock
    \/ BuildStage
    \/ BuildClassifier

SpecBuild == BuildInit /\ [][BuildNext]_vars

\* C25: with the default arguments (embedding dims 64, 128, 320, 512 against 1,
\* 2, 5, 8 heads; key dimension 15 * 10 with 10 heads) neither the assertion of
\* Attention.__init__ nor that of AttentionClassifier.__init__ fails, and the
\* construction reaches its end.
C25_DivisibilityAssertionsHold ==
    b_args = DefaultArgs => (b_err = "none" /\ bpc # "raised")

\* the construction with the default arguments has built all four stages and
\* the classifier
C25_Witness ==
    /\ b_args = DefaultArgs
    /\ bpc = "done"
    /\ b_stage = 4
    /\ b_blocks = 3

\* a construction with other arguments fails an assertion
C25_OtherArgumentsRaise ==
    /\ bpc = "raised"
    /\ b_args.dims # embed_dims

(***************************************************************************)
(* src/utils.py: Logger.  The original sys.stdout is the console; a file   *)
(* holds the sequence of the messages written to it.                       *)
(***************************************************************************)

\* number of write calls of a run
MaxMsgs == 3

Messages == {"a", "b"}

\* a test of logdir that always holds
logdir_given_always(logdir) == TRUE

\* logdir is not None
logdir_given(logdir) == logdir # "None"

LoggerInit ==
    /\ logpc = "new"
    /\ lg_logdir \in {"None", "logs"}
    /\ lg_dirs \in {{}, {"logs"}}
    /\ lg_file = NoFile
    /\ sys_stdout = "stdout"
    /\ sys_stderr = "stderr"
    /\ lg_self = << >>
    /\ console_out = << >>
    /\ console_closed = FALSE
    /\ lg_written = << >>
    /\ lg_e = "none"
    /\ DrvNotStarted
    /\ TokDone
    /\ AttnIdle
    /\ ShapeIdle
    /\ LoadIdle
    /\ TrainIdle
    /\ ResumeIdle
    /\ ProcsIdle
    /\ GroupsIdle
    /\ WeightsIdle
    /\ BuildIdle

\* utils.py:106-113: Logger.__init__; os.makedirs raises when logdir exists
LoggerConstruct ==
    /\ logpc = "new"
    /\ IF logdir_given(lg_logdir) /\ lg_logdir \in lg_dirs
         THEN /\ lg_e' = "FileExistsError"
              /\ logpc' = "raised"
              /\ lg_self' = [console |-> sys_stdout]
              /\ UNCHANGED <<lg_dirs, lg_file, sys_stdout, sys_stderr>>
         ELSE /\ IF logdir_given(lg_logdir)
                   THEN /\ lg_dirs' = lg_dirs \cup {lg_logdir}
                        /\ lg_file' = File(<< >>)
                        /\ lg_self' = [console |-> sys_stdout, log_file |-> "open"]
                   ELSE /\ lg_self' = [console |-> sys_stdout, log_file |-> "None"]
                        /\ UNCHANGED <<lg_dirs, lg_file>>
              /\ sys_stdout' = "logger"
              /\ sys_stderr' = "logger"
              /\ logpc' = "live"
              /\ UNCHANGED lg_e
    /\ UNCHANGED <<lg_logdir, console_out, console_closed, lg_written>>
    /\ UNCHANGED lg_others

\* utils.py:124-127: a write to sys.stdout or to sys.stderr, both the Logger;
\* a closed console raises ValueError before anything is written
LoggerWrite ==
    /\ logpc = "live"
    /\ Len(lg_written) < MaxMsgs
    /\ \E stream \in {sys_stdout, sys_stderr}, msg \in Messages :
          /\ stream = "logger"
          /\ IF console_closed
               THEN /\ lg_e' = "ValueError"
                    /\ UNCHANGED <<console_out, lg_file, lg_written>>
               ELSE /\ console_out' = Append(console_out, msg)
                    /\ lg_file' = IF lg_self.log_file # "None"
                                  THEN File(Append(lg_file[1], msg))
                                  ELSE lg_file
                    /\ lg_written' = Append(lg_written, msg)
                    /\ lg_e' = "none"
    /\ UNCHANGED <<logpc, lg_logdir, lg_dirs, sys_stdout, sys_stderr, lg_self,
                   console_closed>>
    /\ UNCHANGED lg_others

\* utils.py:129-133: flush of the console and of the log file
LoggerFlush ==
    /\ logpc = "live"
    /\ lg_e' = IF console_closed THEN "ValueError" ELSE "none"
    /\ UNCHANGED <<logpc, lg_logdir, lg_dirs, lg_file, sys_stdout, sys_stderr, lg_self,
                   console_out, console_closed, lg_written>>
    /\ UNCHANGED lg_others

\* utils.py:115-122 and 135-138: close, from __exit__ or __del__
LoggerClose ==
    /\ logpc = "live"
    /\ console_closed' = TRUE
    /\ lg_self' = [lg_self EXCEPT !.log_file = IF @ = "None" THEN "None" ELSE "closed"]
    /\ lg_e' = "none"
    /\ UNCHANGED <<logpc, lg_logdir, lg_dirs, lg_file, sys_stdout, sys_stderr,
                   console_out, lg_written>>
    /\ UNCHANGED lg_others

LoggerNext ==
    \/ LoggerConstruct
    \/ LoggerWrite
    \/ LoggerFlush
    \/ LoggerClose

SpecLogger == LoggerInit /\ [][LoggerNext]_vars

\* C26: once a Logger is constructed, sys.stdout and sys.stderr both refer to
\* it; the messages whose write through it returned are, in their order, what the
\* original console received and, exactly when a log directory was given, what
\* the log file received; with logdir None no directory and no file is created.
C26_LoggerTees ==
    /\ [](logpc = "live" =>
            /\ sys_stdout = "logger" /\ sys_stderr = "logger"
            /\ lg_self.console = "stdout"
            /\ console_out = lg_written
            /\ lg_logdir # "None" => (lg_file = File(lg_written) /\ lg_logdir \in lg_dirs)
            /\ lg_logdir = "None" => lg_file = NoFile)
    /\ [][lg_logdir = "None" => (lg_dirs' = lg_dirs /\ lg_file' = lg_file)]_vars

\* a Logger with a log directory has written two different messages
C26_Witness ==
    /\ logpc = "live"
    /\ lg_logdir = "logs"
    /\ Len(lg_written) = 3
    /\ lg_written[1] # lg_written[2]
    /\ lg_file = File(lg_written)

\* a write after close raised ValueError and wrote nothing
C26_WriteAfterCloseRaises ==
    /\ logpc = "live"
    /\ console_closed
    /\ lg_e = "ValueError"

=============================================================================
